---- MODULE Spec2Model ----
(***************************************************************************)
(* Verification model of the NLDL tutorial notebooks:                      *)
(*   src/unnamed/part_000        PINN for the damped mass-spring system    *)
(*   src/unnamed/part_001        PHNN for the damped mass-spring system    *)
(*   src/exercise2_hnn_kdv.ipynb HNN for the KdV equation                  *)
(*                                                                         *)
(* Numbers.  The notebooks compute in IEEE floating point.  A number is    *)
(* modelled as an extended rational [n, d]: d > 0 is the finite value n/d  *)
(* in lowest terms, d = 0 is a non-finite value (n = 1: +inf, n = -1:      *)
(* -inf, n = 0: NaN).  A finite result whose magnitude exceeds FMax        *)
(* overflows to an infinity, as a float does; rounding is not modelled.    *)
(***************************************************************************)
EXTENDS Integers, Sequences, FiniteSets, TLC

\* Largest finite magnitude of the number model (stands for the float maximum).
FMax == 10000

Abs(i) == IF i < 0 THEN -i ELSE i

Sgn(i) == IF i > 0 THEN 1 ELSE IF i < 0 THEN -1 ELSE 0

RECURSIVE Gcd(_, _)
Gcd(a, b) == IF b = 0 THEN a ELSE CHOOSE r \in {Gcd(b, c) : c \in {a % b}} : TRUE

NaN == [n |-> 0, d |-> 0]

Inf(s) == [n |-> s, d |-> 0]

IsFinite(x) == x.d > 0

IsNaN(x) == x.d = 0 /\ x.n = 0

\* The operators of the number model come in pairs: XxxV computes on values, Xxx
\* evaluates its arguments once and hands their values on.
\* The number n/d (d > 0), reduced, overflowing to an infinity beyond FMax.
QR(m, e) ==
    IF Abs(m) \div e > FMax \/ (Abs(m) \div e = FMax /\ Abs(m) % e # 0)
    THEN Inf(Sgn(m))
    ELSE [n |-> m, d |-> e]

QV(n, d) == CHOOSE r \in {QR(n \div g, d \div g) : g \in {Gcd(Abs(n), d)}} : TRUE

Q(n, d) == CHOOSE r \in {QV(a, b) : a \in {n}, b \in {d}} : TRUE

Z(i) == Q(i, 1)

FNegV(x) == [n |-> -x.n, d |-> x.d]

FNeg(x) == CHOOSE r \in {FNegV(a) : a \in {x}} : TRUE

FAddV(x, y) ==
    IF IsNaN(x) \/ IsNaN(y) THEN NaN
    ELSE IF ~IsFinite(x) /\ ~IsFinite(y)
         THEN (IF x.n = y.n THEN x ELSE NaN)
    ELSE IF ~IsFinite(x) THEN x
    ELSE IF ~IsFinite(y) THEN y
    ELSE CHOOSE r \in {Q(x.n * (y.d \div g) + y.n * (x.d \div g), (x.d \div g) * y.d) :
                          g \in {Gcd(x.d, y.d)}} : TRUE

FAdd(x, y) == CHOOSE r \in {FAddV(a, b) : a \in {x}, b \in {y}} : TRUE

FSub(x, y) == FAdd(x, FNeg(y))

FMulV(x, y) ==
    IF IsNaN(x) \/ IsNaN(y) THEN NaN
    ELSE IF ~IsFinite(x) \/ ~IsFinite(y)
         THEN (IF x.n = 0 \/ y.n = 0 THEN NaN ELSE Inf(Sgn(x.n) * Sgn(y.n)))
    ELSE LET ix == Abs(x.n) \div x.d
             iy == Abs(y.n) \div y.d
         IN  IF ix > 0 /\ iy > FMax \div ix
             THEN Inf(Sgn(x.n) * Sgn(y.n))
             ELSE CHOOSE r \in {Q((x.n \div g1) * (y.n \div g2),
                                  (x.d \div g2) * (y.d \div g1)) :
                                    g1 \in {Gcd(Abs(x.n), y.d)},
                                    g2 \in {Gcd(Abs(y.n), x.d)}} : TRUE

FMul(x, y) == CHOOSE r \in {FMulV(a, b) : a \in {x}, b \in {y}} : TRUE

\* x / y for a finite non-zero y.
FRecipV(y) == [n |-> Sgn(y.n) * y.d, d |-> Abs(y.n)]

FDiv(x, y) == CHOOSE r \in {FMulV(a, FRecipV(b)) : a \in {x}, b \in {y}} : TRUE

FSq(x) == CHOOSE r \in {FMulV(a, a) : a \in {x}} : TRUE

\* Sum and mean of a sequence of numbers (torch.mean, nn.MSELoss).
RECURSIVE FSum(_)
FSum(s) == IF s = <<>> THEN Z(0) ELSE FAdd(Head(s), FSum(Tail(s)))

FMean(s) == FDiv(FSum(s), Z(Len(s)))


(***************************************************************************)
(* Vectors and matrices are functions on the index set 0..M-1, as in numpy.*)
(***************************************************************************)
Idx(m) == 0 .. (m - 1)

RECURSIVE FSumTo(_, _)
\* f[0] + ... + f[k-1]
FSumTo(f, k) == IF k = 0 THEN Z(0) ELSE FAdd(FSumTo(f, k - 1), f[k - 1])

VSize(v) == Cardinality(DOMAIN v)

\* A @ v
MatVec(A, v) ==
    [i \in DOMAIN A |-> FSumTo([j \in DOMAIN v |-> FMul(A[i][j], v[j])], VSize(v))]

\* v @ A
VecMat(v, A) ==
    [j \in DOMAIN v |-> FSumTo([i \in DOMAIN v |-> FMul(v[i], A[i][j])], VSize(v))]

Dot(v, w) == FSumTo([i \in DOMAIN v |-> FMul(v[i], w[i])], VSize(v))

VSum(v) == FSumTo(v, VSize(v))

ScaleMat(c, A) == [i \in DOMAIN A |-> [j \in DOMAIN A[i] |-> FMul(c, A[i][j])]]

\* np.ones(M) and its negation and multiples, as rows of spdiags data.
Ones(m, c) == [j \in Idx(m) |-> Z(c)]

\* scipy.sparse.spdiags(data, diags, m, n).toarray(): row k of data lies on the
\* diagonal diags[k], its entry j in column j.  The offsets must be distinct
\* (dia_matrix raises ValueError otherwise).
DistinctOffsets(diags) ==
    \A a, b \in DOMAIN diags : a # b => diags[a] # diags[b]

Spdiags(data, diags, m, n) ==
    [i \in Idx(m) |-> [j \in Idx(n) |->
        IF \E k \in DOMAIN diags : diags[k] = j - i
        THEN data[CHOOSE k \in DOMAIN diags : diags[k] = j - i][j]
        ELSE Z(0)]]

\* Exercise 2, first code cells: the grid.
period == 20

eta == 6

gamma == 1

\* np.linspace(0, period - period/spatial_points, spatial_points)
Linspace(lo, hi, num) ==
    [j \in Idx(num) |->
        IF num = 1 THEN lo
        ELSE FAdd(lo, FMul(FDiv(FSub(hi, lo), Z(num - 1)), Z(j)))]

Grid(spatial_points) ==
    Linspace(Z(0), FSub(Z(period), FDiv(Z(period), Z(spatial_points))), spatial_points)

\* setup_KdV_system: dx = x[-1]/(M-1)
SetupDx(xs) == FDiv(xs[VSize(xs) - 1], Z(VSize(xs) - 1))

\* Fault model: a forward difference matrix without the wrap-around corner.
MakeDpNoWrap(m, h) ==
    ScaleMat(FDiv(Z(1), h), Spdiags(<<Ones(m, -1), Ones(m, 1)>>, <<0, 1>>, m, m))

\* Forward difference matrix
MakeDp(m, h) ==
    ScaleMat(FDiv(Z(1), h),
             Spdiags(<<Ones(m, 1), Ones(m, -1), Ones(m, 1)>>, <<1 - m, 0, 1>>, m, m))

\* Fault model: a central difference matrix without the periodic corner entries.
MakeD1NoWrap(m, h) ==
    ScaleMat(FDiv(Q(1, 2), h), Spdiags(<<Ones(m, -1), Ones(m, 1)>>, <<-1, 1>>, m, m))

\* Fault model: a central difference matrix whose two corner entries are equal.
MakeD1CornersEqual(m, h) ==
    ScaleMat(FDiv(Q(1, 2), h),
             Spdiags(<<Ones(m, 1), Ones(m, -1), Ones(m, 1), Ones(m, 1)>>,
                     <<1 - m, -1, 1, m - 1>>, m, m))

\* Central difference matrix
MakeD1(m, h) ==
    ScaleMat(FDiv(Q(1, 2), h),
             Spdiags(<<Ones(m, 1), Ones(m, -1), Ones(m, 1), Ones(m, -1)>>,
                     <<1 - m, -1, 1, m - 1>>, m, m))

\* 2nd order central difference matrix
MakeD2(m, h) ==
    ScaleMat(FDiv(Z(1), FSq(h)),
             Spdiags(<<Ones(m, 1), Ones(m, 1), Ones(m, -2), Ones(m, 1), Ones(m, 1)>>,
                     <<1 - m, -1, 0, 1, m - 1>>, m, m))

\* hamiltonian_grad / the first line of true_f: -.5*eta*u**2 - (gamma**2 * u @ D2)
HamiltonianGrad(uu, d2) ==
    LET uD2 == VecMat([j \in DOMAIN uu |-> FMul(FSq(Z(gamma)), uu[j])], d2)
    IN  [j \in DOMAIN uu |->
            FSub(FMul(FMul(Q(-1, 2), Z(eta)), FSq(uu[j])), uD2[j])]

\* true_f(u) = D1 @ dH
TrueF(uu, d1, d2) == MatVec(d1, HamiltonianGrad(uu, d2))

(***************************************************************************)
(* The models.  A model is a record [cls, theta, requires_grad]: theta     *)
(* maps each parameter name to its value, requires_grad tells which of     *)
(* them autograd tracks.  The tanh networks are represented by polynomials *)
(* in the input whose coefficients are the weights, so that the forward    *)
(* pass and the derivatives autograd returns are exact rational            *)
(* expressions:                                                            *)
(*   NeuralNet, PINN   x(t) = w0 + w1*t + w2*t*t                           *)
(*   FNN (2 -> 2)      g(q, p) = (w0*p, w1*q)                              *)
(*   PHNN              H(q, p) = (w0*q*q + w1*p*p)/2, damping mu           *)
(*   HNN               H(u) = sum_j w0*u[j]*u[j] + w1*u[j]*u[j+1]          *)
(***************************************************************************)
\* NeuralNet.forward / PINN.forward
NetForward(th, t) ==
    FAdd(th["w0"], FAdd(FMul(th["w1"], t), FMul(th["w2"], FSq(t))))

\* time_derivative(x, t) of the network output, and of that derivative
NetDot(th, t) == FAdd(th["w1"], FMul(FMul(Z(2), th["w2"]), t))

NetDDot(th, t) == FMul(Z(2), th["w2"])

\* nn.MSELoss / torch.mean((a - b) ** 2) of two vectors
MseLoss(pred, target) ==
    FDiv(FSumTo([j \in DOMAIN pred |-> FSq(FSub(pred[j], target[j]))], VSize(pred)),
         Z(VSize(pred)))

\* Fault model: the residual of the undamped oscillator.
OdeResidualUndamped(xddot, xdot, xphys, mu, k) == FAdd(xddot, FMul(k, xphys))

\* ode_residual = xddot + mu * xdot + k * x_phys
OdeResidual(xddot, xdot, xphys, mu, k) ==
    FAdd(FAdd(xddot, FMul(mu, xdot)), FMul(k, xphys))

\* torch.mean(ode_residual**2) over the collocation points
PhysicsLoss(th, tphys, mu, k) ==
    FDiv(FSumTo([j \in DOMAIN tphys |->
                    FSq(OdeResidual(NetDDot(th, tphys[j]), NetDot(th, tphys[j]),
                                    NetForward(th, tphys[j]), mu, k))],
                VSize(tphys)),
         Z(VSize(tphys)))

\* mse(model(t_train), x_train)
DataLoss(th, ttrain, xtrain) ==
    MseLoss([j \in DOMAIN ttrain |-> NetForward(th, ttrain[j])], xtrain)

\* HNN (exercise 2).  The convolutional network of HNN.hamiltonian sums, over the
\* grid, a learned function of each entry and its right neighbour (forward_padding
\* appends u[0], the first kernel spans the padding plus one entries).  The tanh
\* network is represented by the polynomial h(a, b) = w0*a*a + w1*a*b, whose
\* gradient autograd would return exactly.
HnnHamiltonian(th, uu) ==
    LET m == VSize(uu)
    IN  FSumTo([j \in Idx(m) |->
                  FAdd(FMul(th["w0"], FSq(uu[j])),
                       FMul(th["w1"], FMul(uu[j], uu[(j + 1) % m])))], m)

\* torch.autograd.grad(H.sum(), u)
HnnGrad(th, uu) ==
    LET m == VSize(uu)
    IN  [j \in Idx(m) |->
            FAdd(FMul(FMul(Z(2), th["w0"]), uu[j]),
                 FMul(th["w1"], FAdd(uu[(j + 1) % m], uu[(j + m - 1) % m])))]

\* learned_hnn_f(u) = D1 @ dH
LearnedHnnF(th, uu, d1) == MatVec(d1, HnnGrad(th, uu))

(***************************************************************************)
(* rk4.  A vector field is a record naming the function and its weights:   *)
(*   "linear"  the scalar test field g(x) = a*x                            *)
(*   "FNN"     model_snn: FNN.forward                                      *)
(*   "PHNN"    model_phnn: PHNN.forward                                    *)
(*   "true_f", "learned_hnn_f"   the KdV fields, with their matrices       *)
(* States are vectors (functions on 0..n-1).                               *)
(***************************************************************************)
\* PHNN.forward: S = self.S.clone(); S[1, 1] = -self.mu; (S @ dH.T).T
PhnnS(mu) == [r \in Idx(2) |-> [c \in Idx(2) |->
                 IF r = 0 /\ c = 1 THEN Z(1)
                 ELSE IF r = 1 /\ c = 0 THEN Z(-1)
                 ELSE IF r = 1 /\ c = 1 THEN FNeg(mu)
                 ELSE Z(0)]]

\* PHNN.grad for the quadratic Hamiltonian
PhnnGrad(th, xx) ==
    [c \in Idx(2) |-> FMul(IF c = 0 THEN th["w0"] ELSE th["w1"], xx[c])]

PhnnForward(th, xx) == MatVec(PhnnS(th["mu"]), PhnnGrad(th, xx))

\* FNN.forward of the purely data-driven model
FnnForward(th, xx) ==
    [c \in Idx(2) |-> IF c = 0 THEN FMul(th["w0"], xx[1]) ELSE FMul(th["w1"], xx[0])]

Field(f, xx) ==
    IF f.kind = "linear" THEN [c \in DOMAIN xx |-> FMul(f.a, xx[c])]
    ELSE IF f.kind = "FNN" THEN FnnForward(f.th, xx)
    ELSE IF f.kind = "true_f" THEN TrueF(xx, f.D1, f.D2)
    ELSE IF f.kind = "learned_hnn_f" THEN LearnedHnnF(f.th, xx, f.D1)
    ELSE PhnnForward(f.th, xx)

VAdd(v, w) == [c \in DOMAIN v |-> FAdd(v[c], w[c])]

VScale(c, v) == [k \in DOMAIN v |-> FMul(c, v[k])]

\* Fault model: a step that averages its four stages with equal weights.
Rk4StepEqualWeights(f, xx, h) ==
    LET k1 == VScale(h, Field(f, xx))
        k2 == VScale(h, Field(f, VAdd(xx, VScale(Q(1, 2), k1))))
        k3 == VScale(h, Field(f, VAdd(xx, VScale(Q(1, 2), k2))))
        k4 == VScale(h, Field(f, VAdd(xx, k3)))
    IN  VAdd(xx, VScale(Q(1, 4), VAdd(VAdd(k1, k2), VAdd(k3, k4))))

\* Fault model: a step whose third stage is evaluated from the first.
Rk4StepStage3(f, xx, h) ==
    LET k1 == VScale(h, Field(f, xx))
        k2 == VScale(h, Field(f, VAdd(xx, VScale(Q(1, 2), k1))))
        k3 == VScale(h, Field(f, VAdd(xx, VScale(Q(1, 2), k1))))
        k4 == VScale(h, Field(f, VAdd(xx, k3)))
    IN  VAdd(xx, VScale(Q(1, 6),
             VAdd(VAdd(k1, VScale(Z(2), k2)), VAdd(VScale(Z(2), k3), k4))))

\* The body of the loop of rk4 (the same in both notebooks up to the spelling of
\* the constants .5 and 1/6): the new state.
Rk4Step(f, xx, h) ==
    LET k1 == VScale(h, Field(f, xx))
        k2 == VScale(h, Field(f, VAdd(xx, VScale(Q(1, 2), k1))))
        k3 == VScale(h, Field(f, VAdd(xx, VScale(Q(1, 2), k2))))
        k4 == VScale(h, Field(f, VAdd(xx, k3)))
    IN  VAdd(xx, VScale(Q(1, 6),
             VAdd(VAdd(k1, VScale(Z(2), k2)), VAdd(VScale(Z(2), k3), k4))))

\* int(t_end / dt): truncation (t_end >= 0, dt > 0, both finite)
IntDiv(a, b) == (a.n * b.d) \div (a.d * b.n)

\* len(np.arange(0, t_end + dt, dt)) = ceil((t_end + dt) / dt)
ArangeLen(stop, step) ==
    LET num == stop.n * step.d
        den == stop.d * step.n
    IN  IF num <= 0 THEN 0 ELSE (num + den - 1) \div den


(***************************************************************************)
(* Forward passes, losses, gradients and the optimizer step of the         *)
(* training loops.                                                         *)
(***************************************************************************)
\* Fault model: conv1d taken as a convolution, which flips the kernel.
HnnForwardFlipped(th, uu, h) ==
    LET m == VSize(uu)
        dh == HnnGrad(th, uu)
        dH_padded == [j \in Idx(m + 2) |->
                         IF j = 0 THEN dh[m - 1]
                         ELSE IF j = m + 1 THEN dh[0]
                         ELSE dh[j - 1]]
        S == [k \in Idx(3) |-> FDiv(Z(k - 1), FMul(Z(2), h))]
    IN  [j \in Idx(m) |->
            FSumTo([k \in Idx(3) |-> FMul(S[2 - k], dH_padded[j + k])], 3)]

\* HNN.forward(u, dx): periodic padding of dH by one entry on each side, then
\* conv1d with the kernel [-1, 0, 1] / (2 * dx).
HnnForward(th, uu, h) ==
    LET m == VSize(uu)
        dh == HnnGrad(th, uu)
        dH_padded == [j \in Idx(m + 2) |->
                         IF j = 0 THEN dh[m - 1]
                         ELSE IF j = m + 1 THEN dh[0]
                         ELSE dh[j - 1]]
        S == [k \in Idx(3) |-> FDiv(Z(k - 1), FMul(Z(2), h))]
    IN  [j \in Idx(m) |->
            FSumTo([k \in Idx(3) |-> FMul(S[k], dH_padded[j + k])], 3)]

\* model(x) / model(x, **kwargs) for one row of the batch
ModelForward(cls, th, row, h) ==
    IF cls = "FNN" THEN FnnForward(th, row)
    ELSE IF cls = "PHNN" THEN PhnnForward(th, row)
    ELSE HnnForward(th, row, h)

\* torch.mean((dxdt - rhs) ** 2) over every entry of the batch
BatchMse(rows, targets, cls, th, h) ==
    LET r == VSize(rows)
        c == VSize(rows[0])
        rhs == [a \in Idx(r) |-> ModelForward(cls, th, rows[a], h)]
    IN  FDiv(FSumTo([a \in Idx(r) |->
                       FSumTo([b \in Idx(c) |-> FSq(FSub(targets[a][b], rhs[a][b]))], c)],
                    r),
             Z(r * c))

\* The loss a training function computes in one iteration from the parameters th.
\* a is the record of everything else the iteration reads.
TotalLoss(f, th, a) ==
    IF f = "train_nn" THEN DataLoss(th, a.t_train, a.x_train)
    ELSE IF f = "train_pinn"
         THEN FAdd(DataLoss(th, a.t_train, a.x_train),
                   FMul(a.lambda_, PhysicsLoss(th, a.t_phys, a.MU, a.K)))
    ELSE IF f = "train_pinn_params"
         THEN FAdd(DataLoss(th, a.t_train, a.x_train),
                   FMul(a.lambda_, PhysicsLoss(th, a.t_phys, th["mu"], th["k"])))
    ELSE BatchMse(a.t_train, a.x_train, a.cls, th, a.dx)

\* d loss / d th[name], as loss.backward() computes it.  Every loss above is a
\* polynomial of degree at most two in each single parameter, for which the
\* central difference with unit step is the exact derivative.
LossGrad(f, th, a, name) ==
    CHOOSE r \in {FDiv(FSub(TotalLoss(f, up, a), TotalLoss(f, down, a)), Z(2)) :
                     up \in {[th EXCEPT ![name] = FAdd(th[name], Z(1))]},
                     down \in {[th EXCEPT ![name] = FSub(th[name], Z(1))]}} : TRUE

\* loss.backward(): gradients are added to the .grad of every parameter that
\* requires grad (a missing .grad counts as zero).
Backward(f, th, rg, gr, a) ==
    [name \in {nm \in DOMAIN th : rg[nm]} |->
        FAdd(IF name \in DOMAIN gr THEN gr[name] ELSE Z(0), LossGrad(f, th, a, name))]

\* torch.optim.Adam keeps for every parameter a running average of its gradients
\* (exp_avg, with beta1 = 0.9, starting from 0 at the parameter's first step).
\* m is the average so far, gr the .grad fields; parameters without .grad are
\* skipped.
AdamMoments(m, gr) ==
    [name \in DOMAIN m \cup DOMAIN gr |->
        IF name \in DOMAIN gr
        THEN FAdd(FMul(Q(9, 10), IF name \in DOMAIN m THEN m[name] ELSE Z(0)),
                  FMul(Q(1, 10), gr[name]))
        ELSE m[name]]

\* optimizer.step() of torch.optim.Adam: every parameter that has a .grad moves
\* by the learning rate against the sign of its updated average m[name] (Adam's
\* normalised step); a non-finite gradient or average makes the parameter NaN.
\* Parameters without .grad are skipped.
AdamStep(th, m, gr, lr) ==
    [name \in DOMAIN th |->
        IF name \in DOMAIN gr
        THEN (IF IsFinite(gr[name]) /\ IsFinite(m[name])
              THEN FSub(th[name], FMul(lr, Z(Sgn(m[name].n))))
              ELSE NaN)
        ELSE th[name]]

\* The model classes.  w is the random initialisation of the network weights.
NeuralNet(w) ==
    [cls |-> "NeuralNet",
     theta |-> [w0 |-> w[1], w1 |-> w[2], w2 |-> w[3]],
     requires_grad |-> [w0 |-> TRUE, w1 |-> TRUE, w2 |-> TRUE]]

\* Fault model: physical constants initialised from the random draw.
PINNRandomConstants(w) ==
    [cls |-> "PINN",
     theta |-> [w0 |-> w[1], w1 |-> w[2], w2 |-> w[3], mu |-> w[1], k |-> w[2]],
     requires_grad |-> [w0 |-> TRUE, w1 |-> TRUE, w2 |-> TRUE, mu |-> TRUE, k |-> TRUE]]

PINN(w) ==
    [cls |-> "PINN",
     theta |-> [w0 |-> w[1], w1 |-> w[2], w2 |-> w[3], mu |-> Z(0), k |-> Z(0)],
     requires_grad |-> [w0 |-> TRUE, w1 |-> TRUE, w2 |-> TRUE, mu |-> TRUE, k |-> TRUE]]

FNN(w) ==
    [cls |-> "FNN",
     theta |-> [w0 |-> w[1], w1 |-> w[2]],
     requires_grad |-> [w0 |-> TRUE, w1 |-> TRUE]]

\* Fault model: a damping coefficient that requires grad.
PHNNLearnable(w) ==
    [cls |-> "PHNN",
     theta |-> [w0 |-> w[1], w1 |-> w[2], mu |-> Z(0)],
     requires_grad |-> [w0 |-> TRUE, w1 |-> TRUE, mu |-> TRUE]]

PHNN(w) ==
    [cls |-> "PHNN",
     theta |-> [w0 |-> w[1], w1 |-> w[2], mu |-> Z(0)],
     requires_grad |-> [w0 |-> TRUE, w1 |-> TRUE, mu |-> FALSE]]

HNN(w) ==
    [cls |-> "HNN",
     theta |-> [w0 |-> w[1], w1 |-> w[2]],
     requires_grad |-> [w0 |-> TRUE, w1 |-> TRUE]]

\* x < y for finite numbers
FLt(xa, ya) == xa.n * ya.d < ya.n * xa.d

\* Fault model: an assertion that lets the critically damped case pass.
NotOverdamped(mu, k) == ~FLt(FMul(Z(4), k), FSq(mu))

\* The condition exact_solution asserts: mu**2 < 4 * k
Underdamped(mu, k) == FLt(FSq(mu), FMul(Z(4), k))

\* Fault model: a solution with the phase of a sine, which starts at 0.
ExactSolutionSine(t, k, mu, v) ==
    LET a == FMul(FDiv(FNeg(mu), Z(2)), t)
    IN  IF t = Z(0) THEN FMul(IF a = Z(0) THEN Z(1) ELSE v, Z(0)) ELSE v

\* exact_solution(t, k, mu) past its assertion:
\* torch.exp(-mu / 2 * t) * torch.cos(w * t) with w = sqrt(4k - mu^2) / 2 > 0.
\* exp and cos are exact at 0, where both are 1; at the other times the product is
\* transcendental and v stands for its value.
ExactSolution(t, k, mu, v) ==
    LET a == FMul(FDiv(FNeg(mu), Z(2)), t)
    IN  IF t = Z(0) THEN FMul(IF a = Z(0) THEN Z(1) ELSE v, Z(1)) ELSE v
(***************************************************************************)
(* Tensors with a shape: the entries are stored in row-major order, as the *)
(* contiguous tensors of the notebook are.                                 *)
(***************************************************************************)
RECURSIVE Numel(_)
Numel(sh) == IF sh = <<>> THEN 1 ELSE Head(sh) * Numel(Tail(sh))

\* Offset of the entry with multi-index ix (0-based) in a tensor of shape sh.
RECURSIVE FlatIndex(_, _)
FlatIndex(sh, ix) ==
    IF sh = <<>> THEN 0
    ELSE Head(ix) * Numel(Tail(sh)) + FlatIndex(Tail(sh), Tail(ix))

RECURSIVE MultiIndex(_, _)
MultiIndex(sh, k) ==
    IF sh = <<>> THEN <<>>
    ELSE <<k \div Numel(Tail(sh))>> \o MultiIndex(Tail(sh), k % Numel(Tail(sh)))

At(t, ix) == t.data[FlatIndex(t.shape, ix)]

\* tensor.roll(shifts, dims=0)
Roll0(t, shifts) ==
    [shape |-> t.shape,
     data |-> [k \in Idx(Numel(t.shape)) |->
                  LET ix == MultiIndex(t.shape, k)
                  IN  At(t, [ix EXCEPT ![1] = (@ - shifts) % t.shape[1]])]]

\* Fault model: the slice is forgotten and the wrapped row of roll is kept.
SliceFromKept(t, s) == t

\* tensor[s:, ...]
SliceFrom(t, s) ==
    LET sh == [t.shape EXCEPT ![1] = @ - s]
    IN  [shape |-> sh,
         data |-> [k \in Idx(Numel(sh)) |->
                      LET ix == MultiIndex(sh, k)
                      IN  At(t, [ix EXCEPT ![1] = @ + s])]]

\* a + b and a - b for tensors of one shape
TAdd(a, b) == [shape |-> a.shape, data |-> [k \in DOMAIN a.data |-> FAdd(a.data[k], b.data[k])]]

TSub(a, b) == [shape |-> a.shape, data |-> [k \in DOMAIN a.data |-> FSub(a.data[k], b.data[k])]]

\* tensor / c for a number c
TDivScalar(a, c) == [shape |-> a.shape, data |-> [k \in DOMAIN a.data |-> FDiv(a.data[k], c)]]

\* a / b where b has as many dimensions as a and is broadcast along those of size 1
TDivBroadcast(a, b) ==
    [shape |-> a.shape,
     data |-> [k \in Idx(Numel(a.shape)) |->
                  LET ix == MultiIndex(a.shape, k)
                      bx == [d \in DOMAIN ix |-> IF b.shape[d] = 1 THEN 0 ELSE ix[d]]
                  IN  FDiv(a.data[k], At(b, bx))]]

\* tensor.reshape(shape) for a shape with at most one -1
Reshape(t, sh) ==
    LET known == Numel([d \in DOMAIN sh |-> IF sh[d] = -1 THEN 1 ELSE sh[d]])
    IN  [shape |-> [d \in DOMAIN sh |->
                       IF sh[d] = -1 THEN Numel(t.shape) \div known ELSE sh[d]],
         data |-> t.data]

\* torch.split(tensor, 1, dim): the tuple of the slices of size 1 along dim
Split1(t, dim) ==
    LET sh == [t.shape EXCEPT ![dim + 1] = 1]
    IN  [p \in 1 .. t.shape[dim + 1] |->
            [shape |-> sh,
             data |-> [k \in Idx(Numel(sh)) |->
                          LET ix == MultiIndex(sh, k)
                          IN  At(t, [ix EXCEPT ![dim + 1] = p - 1])]]]

\* Fault model: torch.stack(tensors, dim=-1)
StackLast(ts) ==
    LET sh == ts[1].shape \o <<Len(ts)>>
    IN  [shape |-> sh,
         data |-> [k \in Idx(Numel(sh)) |->
                      LET ix == MultiIndex(sh, k)
                      IN  At(ts[ix[Len(sh)] + 1], SubSeq(ix, 1, Len(sh) - 1))]]

\* torch.stack(tensors, dim=0)
Stack0(ts) ==
    LET sh == <<Len(ts)>> \o ts[1].shape
    IN  [shape |-> sh,
         data |-> [k \in Idx(Numel(sh)) |->
                      LET ix == MultiIndex(sh, k)
                      IN  At(ts[ix[1] + 1], Tail(ix))]]

\* tensor.squeeze(dim): the dimension is removed only if its size is 1
Squeeze(t, dim) ==
    IF t.shape[dim + 1] = 1
    THEN [shape |-> SubSeq(t.shape, 1, dim) \o SubSeq(t.shape, dim + 2, Len(t.shape)),
          data |-> t.data]
    ELSE t

\* Matrices as rows of vectors: A.T and A @ B
Transpose(A) == [c \in DOMAIN A[0] |-> [r \in DOMAIN A |-> A[r][c]]]

MatMul(A, B) ==
    [r \in DOMAIN A |-> [c \in DOMAIN B[0] |->
        FSumTo([k \in DOMAIN B |-> FMul(A[r][k], B[k][c])], VSize(B))]]
(***************************************************************************)
(* State of the KdV notebook's operator cells.                             *)
(***************************************************************************)
VARIABLES
    kpc,            \* position in the notebook: which cell ran last
    spatial_points, \* the grid size
    x,              \* the spatial grid
    KdV_system,     \* the system object returned by setup_KdV_system
    dx,             \* global dx (cell "Extracting the necessary data")
    D1, D2,         \* the global matrices rebuilt for true_f
    hnn,            \* the weights of the HNN model
    u0,             \* the initial state chosen for the test
    u, dH, SdH      \* argument, gradient and result of the last vector-field call

fdvars == <<kpc, spatial_points, x, KdV_system, dx, D1, D2, hnn, u0, u, dH, SdH>>

\* State of a call of rk4 (both notebooks define one).
VARIABLES
    rpc,        \* position inside the call
    impl,       \* "torch": rk4 of the PHNN notebook, "numpy": rk4 of the KdV notebook
    g,          \* the vector field handed over
    x0,         \* the initial state handed over
    t_end, dt,  \* horizon and step size
    num_steps,  \* torch: int(t_end / dt); numpy: len(t_steps) - 1
    i,          \* the loop index
    xr,         \* the running state (x in the torch code, u in the numpy code)
    solution    \* the array being filled (solution, u_steps)

rkvars == <<rpc, impl, g, x0, t_end, dt, num_steps, i, xr, solution>>

\* State of a notebook run: the cells executed top to bottom, and inside a
\* training cell the position in the training function.
VARIABLES
    nb,             \* the notebook: "pinn" (part_000), "phnn" (part_001), "kdv"
    cell,           \* the cell being executed
    pc,             \* position inside the cell
    MU, K,          \* the ODE parameters
    nepochs,        \* the iteration budget handed to the training functions
    learning_rate,  \* the learning rate handed to the training functions
    t_train,        \* training coordinates (t_train; x_midpoint_reshaped; u_midpoint)
    x_train,        \* training targets (x_train; dxdt_reshaped; dudt)
    t_phys,         \* the physics collocation points
    models,         \* the models constructed so far, by variable name
    fn,             \* the training function running
    model,          \* its argument model: the name of the model being trained
    lambda_,        \* local: weight of the physics loss
    t_phys_t,       \* local: the tensor made from t_phys
    optimizer,      \* local: the Adam optimizer (its parameters' owner, lr, step count)
    losses,         \* local: the loss trace
    epoch,          \* local: values range(nepochs) has yielded (loop variable + 1)
    loss,           \* local: the loss tensor of the iteration
    grad,           \* the .grad fields of the model's parameters
    theta_log       \* history: the parameters each optimizer step started from

trvars == <<nb, cell, pc, MU, K, nepochs, learning_rate, t_train, x_train, t_phys,
            models, fn, model, lambda_, t_phys_t, optimizer, losses, epoch, loss,
            grad, theta_log>>

\* State of the PHNN notebook's data cells (part_001): the trajectories and what
\* the midpoint and stacking cells make of them.  t_train and x_train above hold
\* the time grid and the trajectory tensor.
VARIABLES
    spc,                    \* which statement of the data cells ran last
    TRAJ_TRAIN,             \* number of training trajectories
    n_train,                \* N_TRAIN: number of intervals of each trajectory
    x_midpoint, dxdt,       \* midpoints and difference quotients
    x_midpoint_splits,      \* the tuples torch.split returns
    dxdt_splits,
    x_midpoint_reshaped,    \* the stacked training tensors
    dxdt_reshaped

stvars == <<spc, TRAJ_TRAIN, n_train, x_midpoint, dxdt, x_midpoint_splits, dxdt_splits,
            x_midpoint_reshaped, dxdt_reshaped>>

\* State of a PHNN module and of a call of its forward method (part_001).
VARIABLES
    fpc,        \* position inside PHNN.forward
    self_S,     \* self.S
    self_theta, \* the parameters: the weights of hamiltonian_net and self.mu
    calls,      \* number of calls of forward so far
    fx,         \* argument x: a batch of rows (q, p)
    fS,         \* local S
    fdH,        \* local dH
    fout        \* the value returned

phvars == <<fpc, self_S, self_theta, calls, fx, fS, fdH, fout>>

\* State of a call of get_training_data of the KdV notebook.
VARIABLES
    gpc,                    \* position: "call", "returned" or "raised"
    data_points,            \* its arguments: N_TRAIN,
    train_tstep,            \*   dt (TRAIN_TSTEP)
    tmax,                   \*   and tmax (TMAX_TRAIN)
    nt,                     \* the values it returns
    t_axis,
    ntrajectories_train,
    traindata

tdvars == <<gpc, data_points, train_tstep, tmax, nt, t_axis, ntrajectories_train, traindata>>

auxvars == <<stvars, phvars, tdvars>>

vars == <<fdvars, rkvars, trvars, auxvars>>
\* Largest grid size and largest grid value explored.
MaxM == 4

UMax == 1

None == <<>>

GridStates(m) == [Idx(m) -> {Z(v) : v \in (-UMax) .. UMax}]

HnnWeights == {[w0 |-> Z(1), w1 |-> Z(0)], [w0 |-> Z(1), w1 |-> Z(-1)]}

\* Longest horizon explored.
MaxT == 3

KdVKinds == {"true_f", "learned_hnn_f"}

\* The fields the KdV notebook integrates, on the grids of 3 .. MaxM points.
KdVFields ==
    {[kind |-> "true_f",
      D1 |-> MakeD1(m, FDiv(Z(period), Z(m))),
      D2 |-> MakeD2(m, FDiv(Z(period), Z(m)))] : m \in 3 .. MaxM}
    \cup {[kind |-> "learned_hnn_f", th |-> w,
           D1 |-> MakeD1(m, FDiv(Z(period), Z(m)))] : w \in HnnWeights, m \in 3 .. MaxM}

RkFields ==
    {[kind |-> "linear", a |-> Z(a)] : a \in {-1, 1}}
    \cup {[kind |-> "PHNN", th |-> [w0 |-> Z(1), w1 |-> Z(1), mu |-> Z(m)]] :
             m \in {0, 1}}
    \cup KdVFields

\* Initial states.  The quadratic true_f is integrated from the states with
\* u[i+1] = u[i-1], on which the exact rationals stay within the integers of
\* the checker; the linear learned field from every grid state.
RkStates(f) ==
    IF f.kind = "linear" THEN {[c \in Idx(1) |-> Z(v)] : v \in {1, 2}}
    ELSE IF f.kind = "true_f"
    THEN {uu \in GridStates(VSize(f.D1)) :
             \A c \in DOMAIN uu :
                 uu[(c + 1) % VSize(uu)] = uu[(c + VSize(uu) - 1) % VSize(uu)]}
    ELSE IF f.kind = "learned_hnn_f" THEN GridStates(VSize(f.D1))
    ELSE {[c \in Idx(2) |-> IF c = 0 THEN Z(1) ELSE Z(v)] : v \in {0, -1}}

\* Step sizes and horizons: the KdV fields are integrated with dt = dx.
RkSteps(f) ==
    IF f.kind \in KdVKinds THEN {FDiv(Z(period), Z(VSize(f.D1)))} ELSE {Z(1), Z(2)}

RkHorizons(f) ==
    IF f.kind \in KdVKinds THEN {Z(0), Z(10)} ELSE {Z(t) : t \in 0 .. MaxT}

RkImpls(f) == IF f.kind \in KdVKinds THEN {"numpy"} ELSE {"torch", "numpy"}


\* Sizes of the mass-spring data sets and the iteration budgets explored (the
\* notebooks' defaults are 20 and 200 points and 10000 iterations).
N_TRAIN == 2

N_PHYS == 2

MaxEpochs == 3

\* A learning rate large enough to make the training diverge.
BigLr == 100

TMAX_TRAIN == 2

TMAX_PHYS == 7

\* The integration of the learned models: horizon and number of steps.
TMAX_TEST == 2

N_TEST == 2

\* (MU, K) as the exercises vary them: the notebooks' defaults and values that
\* violate the underdamped condition.
OdeParams(notebook) ==
    (IF notebook = "pinn" THEN {<<Q(2, 5), Z(4)>>} ELSE {<<Z(0), Z(1)>>})
    \cup {<<Z(4), Z(4)>>, <<Z(0), Z(0)>>, <<Z(1), Z(-1)>>}

\* Values of the exact solution at the later training times (it is transcendental
\* there; one value stands for all of them),
\* the draws of np.random.uniform(0, TMAX_PHYS), and the random initial weights.
XVals == {Z(0), Q(-1, 2)}

TPhysSamples == {Z(0), Z(3)}

WInit3 == {<<Z(0), Z(0), Z(0)>>, <<Z(1), Z(-1), Z(1)>>}

WInit2 == {<<Z(0), Z(0)>>, <<Z(1), Z(-1)>>}

\* Midpoints and difference quotients as the PHNN notebook's data cells produce
\* them, and states and time derivatives as phlearn produces them.
Row2(a, b) == [c \in Idx(2) |-> IF c = 0 THEN Z(a) ELSE Z(b)]

Row3(a, b, c) == [j \in Idx(3) |-> IF j = 0 THEN Z(a) ELSE IF j = 1 THEN Z(b) ELSE Z(c)]

Rows2(r0, r1) == [a \in Idx(2) |-> IF a = 0 THEN r0 ELSE r1]

PhnnData ==
    {[x |-> Rows2(Row2(1, 0), Row2(0, -1)), dxdt |-> Rows2(Row2(0, -1), Row2(-1, 0))],
     [x |-> Rows2(Row2(1, -1), Row2(0, 1)), dxdt |-> Rows2(Row2(-1, -1), Row2(1, 0))]}

KdvData ==
    {[x |-> Rows2(Row3(1, 0, 0), Row3(0, 1, 1)),
      dxdt |-> Rows2(Row3(0, 1, -1), Row3(0, -1, 1))],
     [x |-> Rows2(Row3(0, 1, -1), Row3(1, 1, 0)),
      dxdt |-> Rows2(Row3(0, 0, 0), Row3(1, 0, -1))]}

\* Largest numbers of trajectories and of intervals per trajectory explored in
\* the stacking cells, and the trajectory tensors: all entries zero but one.
MaxTraj == 2

MaxN == 2

Trajectories(n, traj) ==
    {[shape |-> <<n + 1, 2, traj>>,
      data |-> [k \in Idx((n + 1) * 2 * traj) |-> IF k = hot THEN v ELSE Z(0)]] :
        hot \in Idx((n + 1) * 2 * traj), v \in {Z(1), Z(-2)}}

\* Standard deviation of the noise added to the training targets, and draws of
\* torch.randn_like.
NOISE_STD == 0

Randn == {Z(-1), Z(1)}

\* Values of MU and K explored in the data cell alone.
DataParams == {Z(-2), Z(-1), Z(0), Q(2, 5), Z(1), Z(2), Z(4)}

\* PHNN modules and batches handed to forward: the weights of the Hamiltonian
\* network, the damping coefficient (0.0 at construction, other values once it
\* has been set or learned), rows (q, p), and the number of calls explored.
MaxCalls == 2

PhnnWeights == {<<Z(1), Z(1)>>, <<Z(2), Z(-1)>>}

PhnnMus == {Z(0), Z(1), Q(1, 2), Z(-1)}

PhnnRows == {Row2(1, 0), Row2(0, 1), Row2(1, -1), Row2(2, 1)}

PhnnBatches == UNION {[Idx(b) -> PhnnRows] : b \in 1 .. 2}

\* Arguments of get_training_data explored: numbers of training states, time
\* steps and end times of an evolution.
MaxPoints == 5

TrainTsteps == {Z(1), Z(2)}

TrainTmax == {Q(1, 2)} \cup {Z(v) : v \in 1 .. 6}
IdleRK ==
    /\ rpc = "idle"
    /\ impl = "none"
    /\ g = None
    /\ x0 = None
    /\ t_end = None
    /\ dt = None
    /\ num_steps = 0
    /\ i = 0
    /\ xr = None
    /\ solution = None

IdleFD ==
    /\ kpc = "idle"
    /\ spatial_points = 0
    /\ x = None
    /\ KdV_system = None
    /\ dx = None
    /\ D1 = None
    /\ D2 = None
    /\ hnn = None
    /\ u0 = None
    /\ u = None
    /\ dH = None
    /\ SdH = None


IdleTR ==
    /\ nb = "none"
    /\ cell = "end"
    /\ pc = "cell"
    /\ MU = None
    /\ K = None
    /\ nepochs = 0
    /\ learning_rate = None
    /\ t_train = None
    /\ x_train = None
    /\ t_phys = None
    /\ models = None
    /\ fn = "none"
    /\ model = "none"
    /\ lambda_ = None
    /\ t_phys_t = None
    /\ optimizer = None
    /\ losses = None
    /\ epoch = 0
    /\ loss = None
    /\ grad = None
    /\ theta_log = None

IdleST ==
    /\ spc = "idle"
    /\ TRAJ_TRAIN = 0
    /\ n_train = 0
    /\ x_midpoint = None
    /\ dxdt = None
    /\ x_midpoint_splits = None
    /\ dxdt_splits = None
    /\ x_midpoint_reshaped = None
    /\ dxdt_reshaped = None

IdlePH ==
    /\ fpc = "none"
    /\ self_S = None
    /\ self_theta = None
    /\ calls = 0
    /\ fx = None
    /\ fS = None
    /\ fdH = None
    /\ fout = None

IdleTD ==
    /\ gpc = "none"
    /\ data_points = 0
    /\ train_tstep = None
    /\ tmax = None
    /\ nt = 0
    /\ t_axis = None
    /\ ntrajectories_train = 0
    /\ traindata = None

IdleAux == IdleST /\ IdlePH /\ IdleTD
InitFD ==
    /\ IdleRK
    /\ IdleTR
    /\ IdleAux
    /\ kpc = "grid"
    /\ spatial_points \in 2 .. MaxM
    /\ x = Grid(spatial_points)
    /\ KdV_system = None
    /\ dx = None
    /\ D1 = None
    /\ D2 = None
    /\ hnn \in HnnWeights
    /\ u0 \in GridStates(spatial_points)
    /\ u = None
    /\ dH = None
    /\ SdH = None

\* setup_KdV_system(): the three matrices, D1 handed over as skewsymmetric_matrix.
\* spdiags raises on repeated offsets, which aborts the cell.
setup_KdV_system ==
    /\ kpc = "grid"
    /\ LET M == VSize(x)
           h == SetupDx(x)
       IN  IF DistinctOffsets(<<1 - M, 0, 1>>)
              /\ DistinctOffsets(<<1 - M, -1, 1, M - 1>>)
              /\ DistinctOffsets(<<1 - M, -1, 0, 1, M - 1>>)
           THEN /\ KdV_system' = [nstates |-> M,
                                  Dp |-> MakeDp(M, h),
                                  skewsymmetric_matrix |-> MakeD1(M, h),
                                  D2 |-> MakeD2(M, h)]
                /\ kpc' = "setup"
           ELSE /\ KdV_system' = None
                /\ kpc' = "error"
    /\ UNCHANGED <<spatial_points, x, dx, D1, D2, hnn, u0, u, dH, SdH>>
    /\ UNCHANGED <<rkvars, trvars, auxvars>>

\* dx = (x[..., 1] - x[..., 0])[0]
ExtractData ==
    /\ kpc = "setup"
    /\ dx' = FSub(x[1], x[0])
    /\ kpc' = "data"
    /\ UNCHANGED <<spatial_points, x, KdV_system, D1, D2, hnn, u0, u, dH, SdH>>
    /\ UNCHANGED <<rkvars, trvars, auxvars>>

\* The cell that rebuilds D1 and D2 for true_f and learned_hnn_f.
BuildOperators ==
    /\ kpc = "data"
    /\ LET M == VSize(x)
       IN  /\ D1' = MakeD1(M, dx)
           /\ D2' = MakeD2(M, dx)
    /\ kpc' = "operators"
    /\ UNCHANGED <<spatial_points, x, KdV_system, dx, hnn, u0, u, dH, SdH>>
    /\ UNCHANGED <<rkvars, trvars, auxvars>>

true_f ==
    /\ kpc = "operators"
    /\ u' = u0
    /\ dH' = HamiltonianGrad(u0, D2)
    /\ SdH' = TrueF(u0, D1, D2)
    /\ kpc' = "applied"
    /\ UNCHANGED <<spatial_points, x, KdV_system, dx, D1, D2, hnn, u0>>
    /\ UNCHANGED <<rkvars, trvars, auxvars>>

learned_hnn_f ==
    /\ kpc = "operators"
    /\ u' = u0
    /\ dH' = HnnGrad(hnn, u0)
    /\ SdH' = LearnedHnnF(hnn, u0, D1)
    /\ kpc' = "applied"
    /\ UNCHANGED <<spatial_points, x, KdV_system, dx, D1, D2, hnn, u0>>
    /\ UNCHANGED <<rkvars, trvars, auxvars>>

NextFD ==
    \/ setup_KdV_system
    \/ ExtractData
    \/ BuildOperators
    \/ true_f
    \/ learned_hnn_f

SpecFD == InitFD /\ [][NextFD]_vars

InitRK ==
    /\ IdleFD
    /\ IdleTR
    /\ IdleAux
    /\ rpc = "call"
    /\ g \in RkFields
    /\ impl \in RkImpls(g)
    /\ x0 \in RkStates(g)
    /\ t_end \in RkHorizons(g)
    /\ dt \in RkSteps(g)
    /\ num_steps = 0
    /\ i = 0
    /\ xr = None
    /\ solution = None

\* The lines of rk4 before its loop: the number of states and the array, whose
\* first element is the initial state.
rk4_begin ==
    /\ rpc = "call"
    /\ LET n == IF impl = "torch" THEN IntDiv(t_end, dt)
                ELSE ArangeLen(FAdd(t_end, dt), dt) - 1
       IN  /\ num_steps' = n
           /\ solution' = [k \in 0 .. n |->
                              IF k = 0 THEN x0 ELSE [c \in DOMAIN x0 |-> Z(0)]]
    /\ xr' = x0
    /\ i' = 1
    /\ rpc' = "loop"
    /\ UNCHANGED <<impl, g, x0, t_end, dt>>
    /\ UNCHANGED <<fdvars, trvars, auxvars>>

\* One iteration of the loop of rk4.
rk4_iterate ==
    /\ rpc = "loop"
    /\ i <= num_steps
    /\ xr' = Rk4Step(g, xr, dt)
    /\ solution' = [solution EXCEPT ![i] = xr']
    /\ i' = i + 1
    /\ UNCHANGED <<rpc, impl, g, x0, t_end, dt, num_steps>>
    /\ UNCHANGED <<fdvars, trvars, auxvars>>

rk4_return ==
    /\ rpc = "loop"
    /\ i > num_steps
    /\ rpc' = "returned"
    /\ UNCHANGED <<impl, g, x0, t_end, dt, num_steps, i, xr, solution>>
    /\ UNCHANGED <<fdvars, trvars, auxvars>>

NextRK ==
    \/ rk4_begin
    \/ rk4_iterate
    \/ rk4_return

SpecRK == InitRK /\ [][NextRK]_vars
(***************************************************************************)
(* The PHNN notebook's midpoint and stacking cells.                        *)
(***************************************************************************)
InitST ==
    /\ IdleFD
    /\ IdleRK
    /\ IdlePH
    /\ IdleTD
    /\ spc = "params"
    /\ TRAJ_TRAIN \in 1 .. MaxTraj
    /\ n_train \in 1 .. MaxN
    /\ nb = "none"
    /\ cell = "end"
    /\ pc = "cell"
    /\ MU = None
    /\ K = None
    /\ nepochs = 0
    /\ learning_rate = None
    /\ t_train = None
    /\ x_train = None
    /\ t_phys = None
    /\ models = None
    /\ fn = "none"
    /\ model = "none"
    /\ lambda_ = None
    /\ t_phys_t = None
    /\ optimizer = None
    /\ losses = None
    /\ epoch = 0
    /\ loss = None
    /\ grad = None
    /\ theta_log = None
    /\ x_midpoint = None
    /\ dxdt = None
    /\ x_midpoint_splits = None
    /\ dxdt_splits = None
    /\ x_midpoint_reshaped = None
    /\ dxdt_reshaped = None

\* The data generation cell: t_train = torch.linspace(0, TMAX_TRAIN, N_TRAIN + 1)
\* .unsqueeze(-1), and x_train, the stack along axis 2 of one exact_solution(...)
\* per trajectory, each with one row (q, p) per time of t_train.
generate_data ==
    /\ spc = "params"
    /\ t_train' = [shape |-> <<n_train + 1, 1>>,
                   data |-> Linspace(Z(0), Z(TMAX_TRAIN), n_train + 1)]
    /\ x_train' \in Trajectories(t_train'.shape[1] - 1, TRAJ_TRAIN)
    /\ spc' = "data"
    /\ UNCHANGED <<nb, cell, pc, MU, K, nepochs, learning_rate, t_phys, models, fn, model,
                   lambda_, t_phys_t, optimizer, losses, epoch, loss, grad, theta_log>>
    /\ UNCHANGED <<TRAJ_TRAIN, n_train, x_midpoint, dxdt, x_midpoint_splits, dxdt_splits,
                   x_midpoint_reshaped, dxdt_reshaped>>
    /\ UNCHANGED <<fdvars, rkvars, phvars, tdvars>>

\* x_midpoint = ((x_train + x_train.roll(shifts=1, dims=0))[1:,:,:]/2).requires_grad_()
midpoints ==
    /\ spc = "data"
    /\ x_midpoint' = TDivScalar(SliceFrom(TAdd(x_train, Roll0(x_train, 1)), 1), Z(2))
    /\ spc' = "x_midpoint"
    /\ UNCHANGED <<TRAJ_TRAIN, n_train, dxdt, x_midpoint_splits, dxdt_splits,
                   x_midpoint_reshaped, dxdt_reshaped>>
    /\ UNCHANGED <<fdvars, rkvars, trvars, phvars, tdvars>>

\* dxdt = (x_train - x_train.roll(shifts=1, dims=0))[1:,:,:]
\*        / (t_train - t_train.roll(shifts=1, dims=0))[1:,:].reshape(-1,1,1)
differences ==
    /\ spc = "x_midpoint"
    /\ dxdt' = TDivBroadcast(SliceFrom(TSub(x_train, Roll0(x_train, 1)), 1),
                             Reshape(SliceFrom(TSub(t_train, Roll0(t_train, 1)), 1),
                                     <<-1, 1, 1>>))
    /\ spc' = "dxdt"
    /\ UNCHANGED <<TRAJ_TRAIN, n_train, x_midpoint, x_midpoint_splits, dxdt_splits,
                   x_midpoint_reshaped, dxdt_reshaped>>
    /\ UNCHANGED <<fdvars, rkvars, trvars, phvars, tdvars>>

\* x_midpoint_splits = torch.split(x_midpoint, 1, dim=2)
split_x_midpoint ==
    /\ spc = "dxdt"
    /\ x_midpoint_splits' = Split1(x_midpoint, 2)
    /\ spc' = "x_midpoint_splits"
    /\ UNCHANGED <<TRAJ_TRAIN, n_train, x_midpoint, dxdt, dxdt_splits,
                   x_midpoint_reshaped, dxdt_reshaped>>
    /\ UNCHANGED <<fdvars, rkvars, trvars, phvars, tdvars>>

\* x_midpoint_reshaped = torch.stack(x_midpoint_splits, dim=0).squeeze(2).reshape(-1, 2)
stack_x_midpoint ==
    /\ spc = "x_midpoint_splits"
    /\ x_midpoint_reshaped' = Reshape(Squeeze(Stack0(x_midpoint_splits), 2), <<-1, 2>>)
    /\ spc' = "x_midpoint_reshaped"
    /\ UNCHANGED <<TRAJ_TRAIN, n_train, x_midpoint, dxdt, x_midpoint_splits, dxdt_splits,
                   dxdt_reshaped>>
    /\ UNCHANGED <<fdvars, rkvars, trvars, phvars, tdvars>>

\* dxdt_splits = torch.split(dxdt, 1, dim=2)
split_dxdt ==
    /\ spc = "x_midpoint_reshaped"
    /\ dxdt_splits' = Split1(dxdt, 2)
    /\ spc' = "dxdt_splits"
    /\ UNCHANGED <<TRAJ_TRAIN, n_train, x_midpoint, dxdt, x_midpoint_splits,
                   x_midpoint_reshaped, dxdt_reshaped>>
    /\ UNCHANGED <<fdvars, rkvars, trvars, phvars, tdvars>>

\* dxdt_reshaped = torch.stack(dxdt_splits, dim=0).squeeze(2).reshape(-1, 2)
stack_dxdt ==
    /\ spc = "dxdt_splits"
    /\ dxdt_reshaped' = Reshape(Squeeze(Stack0(dxdt_splits), 2), <<-1, 2>>)
    /\ spc' = "dxdt_reshaped"
    /\ UNCHANGED <<TRAJ_TRAIN, n_train, x_midpoint, dxdt, x_midpoint_splits, dxdt_splits,
                   x_midpoint_reshaped>>
    /\ UNCHANGED <<fdvars, rkvars, trvars, phvars, tdvars>>

NextST ==
    \/ generate_data
    \/ midpoints
    \/ differences
    \/ split_x_midpoint
    \/ stack_x_midpoint
    \/ split_dxdt
    \/ stack_dxdt

SpecST == InitST /\ [][NextST]_vars
(***************************************************************************)
(* Calls of PHNN.forward.                                                  *)
(***************************************************************************)
InitPH ==
    /\ IdleFD
    /\ IdleRK
    /\ IdleTR
    /\ IdleST
    /\ IdleTD
    /\ fpc = "idle"
    /\ self_S = PhnnS(Z(0))
    /\ self_theta \in {[w0 |-> w[1], w1 |-> w[2], mu |-> m] : w \in PhnnWeights, m \in PhnnMus}
    /\ calls = 0
    /\ fx = None
    /\ fS = None
    /\ fdH = None
    /\ fout = None

\* model(x): forward is entered with a batch.
forward_call ==
    /\ fpc \in {"idle", "returned"}
    /\ calls < MaxCalls
    /\ calls' = calls + 1
    /\ fx' \in PhnnBatches
    /\ fS' = None
    /\ fdH' = None
    /\ fout' = None
    /\ fpc' = "clone"
    /\ UNCHANGED <<self_S, self_theta>>
    /\ UNCHANGED <<fdvars, rkvars, trvars, stvars, tdvars>>

\* S = self.S.clone().detach()
forward_clone ==
    /\ fpc = "clone"
    /\ fS' = self_S
    /\ fpc' = "set_mu"
    /\ UNCHANGED <<self_S, self_theta, calls, fx, fdH, fout>>
    /\ UNCHANGED <<fdvars, rkvars, trvars, stvars, tdvars>>

\* Fault model: the entry is written to the module's matrix, which the local S
\* shares.
forward_set_mu_stored ==
    /\ fpc = "set_mu"
    /\ fS' = [fS EXCEPT ![1][1] = FNeg(self_theta["mu"])]
    /\ self_S' = fS'
    /\ fpc' = "grad"
    /\ UNCHANGED <<self_theta, calls, fx, fdH, fout>>
    /\ UNCHANGED <<fdvars, rkvars, trvars, stvars, tdvars>>

\* Fault model: the damping entry with the wrong sign.
forward_set_mu_positive ==
    /\ fpc = "set_mu"
    /\ fS' = [fS EXCEPT ![1][1] = self_theta["mu"]]
    /\ fpc' = "grad"
    /\ UNCHANGED <<self_S, self_theta, calls, fx, fdH, fout>>
    /\ UNCHANGED <<fdvars, rkvars, trvars, stvars, tdvars>>

\* S[1, 1] = -self.mu
forward_set_mu ==
    /\ fpc = "set_mu"
    /\ fS' = [fS EXCEPT ![1][1] = FNeg(self_theta["mu"])]
    /\ fpc' = "grad"
    /\ UNCHANGED <<self_S, self_theta, calls, fx, fdH, fout>>
    /\ UNCHANGED <<fdvars, rkvars, trvars, stvars, tdvars>>

\* dH = self.grad(x)
forward_grad ==
    /\ fpc = "grad"
    /\ fdH' = [r \in DOMAIN fx |-> PhnnGrad(self_theta, fx[r])]
    /\ fpc' = "return"
    /\ UNCHANGED <<self_S, self_theta, calls, fx, fS, fout>>
    /\ UNCHANGED <<fdvars, rkvars, trvars, stvars, tdvars>>

\* return (S @ dH.T).T
forward_return ==
    /\ fpc = "return"
    /\ fout' = Transpose(MatMul(fS, Transpose(fdH)))
    /\ fpc' = "returned"
    /\ UNCHANGED <<self_S, self_theta, calls, fx, fS, fdH>>
    /\ UNCHANGED <<fdvars, rkvars, trvars, stvars, tdvars>>

NextPH ==
    \/ forward_call
    \/ forward_clone
    \/ forward_set_mu
    \/ forward_grad
    \/ forward_return

SpecPH == InitPH /\ [][NextPH]_vars
(***************************************************************************)
(* get_training_data of the KdV notebook.                                  *)
(***************************************************************************)
\* round(r) of Python for r >= 0: to the nearest integer, ties to the even one
Round(r) ==
    LET lo == r.n \div r.d
        twice == 2 * (r.n % r.d)
    IN  IF twice < r.d THEN lo
        ELSE IF twice > r.d THEN lo + 1
        ELSE IF lo % 2 = 0 THEN lo ELSE lo + 1

\* int(np.ceil(a / b)) for integers a >= 0, b > 0
CeilDiv(a, b) == (a + b - 1) \div b

\* phnn.generate_dataset(system, ntrajectories, t_axis): one training state per
\* trajectory and time step of t_axis.
GenerateDataset(ntrajectories, axis) ==
    [nstates |-> ntrajectories * (VSize(axis) - 1)]

InitTD ==
    /\ IdleFD
    /\ IdleRK
    /\ IdleTR
    /\ IdleST
    /\ IdlePH
    /\ gpc = "call"
    /\ data_points \in 1 .. MaxPoints
    /\ train_tstep \in TrainTsteps
    /\ tmax \in TrainTmax
    /\ nt = 0
    /\ t_axis = None
    /\ ntrajectories_train = 0
    /\ traindata = None

\* The body of get_training_data.  With nt = 0 the division data_points / nt
\* raises ZeroDivisionError and nothing is returned.
get_training_data_call ==
    /\ gpc = "call"
    /\ LET n == Round(FDiv(tmax, train_tstep))
           axis == Linspace(Z(0), tmax, n + 1)
       IN  IF n = 0
           THEN /\ gpc' = "raised"
                /\ UNCHANGED <<nt, t_axis, ntrajectories_train, traindata>>
           ELSE /\ nt' = n
                /\ t_axis' = axis
                /\ ntrajectories_train' = CeilDiv(data_points, n)
                /\ traindata' = GenerateDataset(ntrajectories_train', axis)
                /\ gpc' = "returned"
    /\ UNCHANGED <<data_points, train_tstep, tmax>>
    /\ UNCHANGED <<fdvars, rkvars, trvars, stvars, phvars>>

NextTD == get_training_data_call

SpecTD == InitTD /\ [][NextTD]_vars

(***************************************************************************)
(* A notebook run.                                                         *)
(***************************************************************************)
Cells(notebook) ==
    IF notebook = "pinn"
    THEN <<"data", "model_nn", "train_nn", "t_phys", "model_pinn", "train_pinn",
           "model_pinn2", "train_pinn2", "end">>
    ELSE IF notebook = "phnn"
    THEN <<"data", "model_snn", "train_snn", "model_phnn", "train_phnn",
           "integrate_snn", "integrate_phnn", "end">>
    ELSE <<"traindata", "model", "train_kdv", "end">>

NextCell(notebook, c) ==
    LET cs == Cells(notebook)
        at == CHOOSE a \in 1 .. Len(cs) : cs[a] = c
    IN  cs[at + 1]

Init ==
    /\ IdleRK
    /\ IdleAux
    /\ nb \in {"pinn", "phnn", "kdv"}
    /\ kpc = "idle"
    /\ spatial_points = (IF nb = "kdv" THEN 3 ELSE 0)
    /\ x = (IF nb = "kdv" THEN Grid(3) ELSE None)
    /\ KdV_system = None
    /\ dx = None
    /\ D1 = None
    /\ D2 = None
    /\ hnn = None
    /\ u0 = None
    /\ u = None
    /\ dH = None
    /\ SdH = None
    /\ cell = Cells(nb)[1]
    /\ pc = "cell"
    /\ \E mk \in (IF nb = "kdv" THEN {<<None, None>>} ELSE OdeParams(nb)) :
          MU = mk[1] /\ K = mk[2]
    /\ nepochs \in 0 .. MaxEpochs
    /\ learning_rate \in {Z(1), Z(BigLr)}
    /\ t_train = None
    /\ x_train = None
    /\ t_phys = None
    /\ models = None
    /\ fn = "none"
    /\ model = "none"
    /\ lambda_ = None
    /\ t_phys_t = None
    /\ optimizer = None
    /\ losses = None
    /\ epoch = 0
    /\ loss = None
    /\ grad = None
    /\ theta_log = None

loopvars == <<fn, model, lambda_, t_phys_t, optimizer, losses, epoch, loss, grad,
              theta_log>>

hypervars == <<nb, MU, K, nepochs, learning_rate>>

\* Mass-spring notebooks, data cell: t_train is laid out, then exact_solution is
\* called and asserts the underdamped condition; a failed assertion aborts the run.
\* PINN notebook: t_train and x_train (NOISE_STD = 0).  PHNN notebook: the
\* trajectories, of which the following cells keep the midpoints and difference
\* quotients stacked for training (held in t_train and x_train).
exact_solution ==
    /\ cell = "data"
    /\ pc = "cell"
    /\ IF Underdamped(MU, K)
       THEN /\ IF nb = "pinn"
               THEN /\ t_train' = Linspace(Z(0), Z(TMAX_TRAIN), N_TRAIN + 1)
                    /\ x_train' \in {[j \in Idx(N_TRAIN + 1) |->
                                         FAdd(ExactSolution(t_train'[j], K, MU, v),
                                              FMul(Z(NOISE_STD), r))] :
                                        v \in XVals, r \in Randn}
               ELSE \E d \in PhnnData :
                        /\ t_train' = d.x
                        /\ x_train' = d.dxdt
            /\ cell' = NextCell(nb, cell)
            /\ pc' = "cell"
       ELSE /\ t_train' = (IF nb = "pinn"
                           THEN Linspace(Z(0), Z(TMAX_TRAIN), N_TRAIN + 1)
                           ELSE t_train)
            /\ pc' = "aborted"
            /\ UNCHANGED <<cell, x_train>>
    /\ UNCHANGED <<hypervars, t_phys, models, loopvars>>
    /\ UNCHANGED <<fdvars, rkvars, auxvars>>

\* KdV notebook: the training data from phlearn, u_midpoint and dudt, and dx.
get_training_data ==
    /\ cell = "traindata"
    /\ pc = "cell"
    /\ \E d \in KdvData :
          /\ t_train' = d.x
          /\ x_train' = d.dxdt
    /\ dx' = FSub(x[1], x[0])
    /\ cell' = NextCell(nb, cell)
    /\ UNCHANGED <<pc, hypervars, t_phys, models, loopvars>>
    /\ UNCHANGED <<kpc, spatial_points, x, KdV_system, D1, D2, hnn, u0, u, dH, SdH>>
    /\ UNCHANGED <<rkvars, auxvars>>

\* Fault model: the draws are taken from [TMAX_PHYS, 2 * TMAX_PHYS).
sample_t_phys_shifted ==
    /\ cell = "t_phys"
    /\ pc = "cell"
    /\ t_phys' \in {[j \in Idx(N_PHYS) |-> FAdd(tp[j], Z(TMAX_PHYS))] :
                      tp \in {tq \in [Idx(N_PHYS) -> TPhysSamples] :
                                 \A j \in 1 .. N_PHYS - 1 : ~FLt(tq[j], tq[j - 1])}}
    /\ cell' = NextCell(nb, cell)
    /\ UNCHANGED <<pc, hypervars, t_train, x_train, models, loopvars>>
    /\ UNCHANGED <<fdvars, rkvars, auxvars>>

\* t_phys = np.random.uniform(0, TMAX_PHYS, N_PHYS).  The points enter the loss
\* only through a mean, so the draws are taken up to their order.
sample_t_phys ==
    /\ cell = "t_phys"
    /\ pc = "cell"
    /\ t_phys' \in {tp \in [Idx(N_PHYS) -> TPhysSamples] :
                       \A j \in 1 .. N_PHYS - 1 : ~FLt(tp[j], tp[j - 1])}
    /\ cell' = NextCell(nb, cell)
    /\ UNCHANGED <<pc, hypervars, t_train, x_train, models, loopvars>>
    /\ UNCHANGED <<fdvars, rkvars, auxvars>>

ModelCells == {"model_nn", "model_pinn", "model_pinn2", "model_snn", "model_phnn", "model"}

\* model_nn = NeuralNet(), model_pinn = NeuralNet(1, 32, 1), model_pinn2 = PINN(1, 32, 1),
\* model_snn = FNN(...), model_phnn = PHNN(), model = HNN()
construct_model ==
    /\ cell \in ModelCells
    /\ pc = "cell"
    /\ \E m \in (IF cell \in {"model_nn", "model_pinn"} THEN {NeuralNet(w) : w \in WInit3}
                 ELSE IF cell = "model_pinn2" THEN {PINN(w) : w \in WInit3}
                 ELSE IF cell = "model_snn" THEN {FNN(w) : w \in WInit2}
                 ELSE IF cell = "model_phnn" THEN {PHNN(w) : w \in WInit2}
                 ELSE {HNN(w) : w \in WInit2}) :
          models' = [nm \in DOMAIN models \cup {cell} |->
                        IF nm = cell THEN m ELSE models[nm]]
    /\ cell' = NextCell(nb, cell)
    /\ UNCHANGED <<pc, hypervars, t_train, x_train, t_phys, loopvars>>
    /\ UNCHANGED <<fdvars, rkvars, auxvars>>

TrainCells == {"train_nn", "train_pinn", "train_pinn2", "train_snn", "train_phnn", "train_kdv"}

TrainFn(c) ==
    IF c = "train_nn" THEN "train_nn"
    ELSE IF c = "train_pinn" THEN "train_pinn"
    ELSE IF c = "train_pinn2" THEN "train_pinn_params"
    ELSE IF c = "train_kdv" THEN "train_kdv"
    ELSE "train"

\* Fault model: the PINN training continues on the network fitted to the data.
TrainModelShared(c) ==
    IF c = "train_nn" THEN "model_nn"
    ELSE IF c = "train_pinn" THEN "model_nn"
    ELSE IF c = "train_pinn2" THEN "model_pinn2"
    ELSE IF c = "train_snn" THEN "model_snn"
    ELSE IF c = "train_phnn" THEN "model_phnn"
    ELSE "model"

TrainModel(c) ==
    IF c = "train_nn" THEN "model_nn"
    ELSE IF c = "train_pinn" THEN "model_pinn"
    ELSE IF c = "train_pinn2" THEN "model_pinn2"
    ELSE IF c = "train_snn" THEN "model_snn"
    ELSE IF c = "train_phnn" THEN "model_phnn"
    ELSE "model"

PinnFns == {"train_pinn", "train_pinn_params"}

\* What an iteration reads besides the parameters.
LoopArgs ==
    [t_train |-> t_train, x_train |-> x_train, t_phys |-> t_phys_t, MU |-> MU, K |-> K,
     lambda_ |-> lambda_, cls |-> models[model].cls, dx |-> dx]

\* The lines of a training function before its loop.
train_begin ==
    /\ cell \in TrainCells
    /\ pc = "cell"
    /\ fn' = TrainFn(cell)
    /\ model' = TrainModel(cell)
    /\ lambda_' = (IF fn' \in PinnFns THEN Q(1, 10) ELSE None)
    /\ t_phys_t' = (IF fn' \in PinnFns THEN t_phys ELSE None)
    /\ optimizer' = [params |-> model', lr |-> learning_rate, step |-> 0,
                     exp_avg |-> <<>>]
    /\ losses' = <<>>
    /\ epoch' = 0
    /\ loss' = None
    /\ grad' = <<>>
    /\ theta_log' = <<>>
    /\ pc' = "for"
    /\ UNCHANGED <<cell, hypervars, t_train, x_train, t_phys, models>>
    /\ UNCHANGED <<fdvars, rkvars, auxvars>>

\* Fault model: a loop with a convergence test.
loop_head_converged ==
    /\ pc = "for"
    /\ IF epoch < nepochs /\ ~(epoch > 0 /\ IsFinite(loss) /\ FLt(loss, Z(1)))
       THEN /\ epoch' = epoch + 1
            /\ pc' = "zero_grad"
       ELSE /\ pc' = "plot"
            /\ UNCHANGED epoch
    /\ UNCHANGED <<cell, hypervars, t_train, x_train, t_phys, models>>
    /\ UNCHANGED <<fn, model, lambda_, t_phys_t, optimizer, losses, loss, grad, theta_log>>
    /\ UNCHANGED <<fdvars, rkvars, auxvars>>

\* for i in range(nepochs): epoch counts the values the range has yielded, so the
\* loop variable of the running iteration is epoch - 1.
loop_head ==
    /\ pc = "for"
    /\ IF epoch < nepochs
       THEN /\ epoch' = epoch + 1
            /\ pc' = "zero_grad"
       ELSE /\ pc' = "plot"
            /\ UNCHANGED epoch
    /\ UNCHANGED <<cell, hypervars, t_train, x_train, t_phys, models>>
    /\ UNCHANGED <<fn, model, lambda_, t_phys_t, optimizer, losses, loss, grad, theta_log>>
    /\ UNCHANGED <<fdvars, rkvars, auxvars>>

\* Fault model: the gradients are not reset.
zero_grad_skipped ==
    /\ pc = "zero_grad"
    /\ pc' = "data_loss"
    /\ UNCHANGED <<cell, hypervars, t_train, x_train, t_phys, models>>
    /\ UNCHANGED <<fn, model, lambda_, t_phys_t, optimizer, losses, epoch, loss, grad,
                   theta_log>>
    /\ UNCHANGED <<fdvars, rkvars, auxvars>>

\* Fault model: the collocation points are drawn afresh in every iteration.
zero_grad_resample ==
    /\ pc = "zero_grad"
    /\ grad' = <<>>
    /\ t_phys_t' = (IF fn \in PinnFns
                    THEN [j \in Idx(N_PHYS) |-> FAdd(t_phys_t[j], Z(1))]
                    ELSE t_phys_t)
    /\ pc' = "data_loss"
    /\ UNCHANGED <<cell, hypervars, t_train, x_train, t_phys, models>>
    /\ UNCHANGED <<fn, model, lambda_, optimizer, losses, epoch, loss, theta_log>>
    /\ UNCHANGED <<fdvars, rkvars, auxvars>>

\* optimizer.zero_grad()
zero_grad ==
    /\ pc = "zero_grad"
    /\ grad' = <<>>
    /\ pc' = "data_loss"
    /\ UNCHANGED <<cell, hypervars, t_train, x_train, t_phys, models>>
    /\ UNCHANGED <<fn, model, lambda_, t_phys_t, optimizer, losses, epoch, loss, theta_log>>
    /\ UNCHANGED <<fdvars, rkvars, auxvars>>

\* The forward pass on the training data and the data loss.
data_loss ==
    /\ pc = "data_loss"
    /\ loss' = (IF fn \in PinnFns \cup {"train_nn"}
                THEN DataLoss(models[model].theta, t_train, x_train)
                ELSE BatchMse(t_train, x_train, models[model].cls,
                              models[model].theta, dx))
    /\ pc' = (IF fn \in PinnFns THEN "phys_loss" ELSE "backward")
    /\ UNCHANGED <<cell, hypervars, t_train, x_train, t_phys, models>>
    /\ UNCHANGED <<fn, model, lambda_, t_phys_t, optimizer, losses, epoch, grad, theta_log>>
    /\ UNCHANGED <<fdvars, rkvars, auxvars>>

\* loss += lambda_ * torch.mean(ode_residual**2)
phys_loss ==
    /\ pc = "phys_loss"
    /\ LET th == models[model].theta
           mu == IF fn = "train_pinn" THEN MU ELSE th["mu"]
           k == IF fn = "train_pinn" THEN K ELSE th["k"]
       IN  loss' = FAdd(loss, FMul(lambda_, PhysicsLoss(th, t_phys_t, mu, k)))
    /\ pc' = "backward"
    /\ UNCHANGED <<cell, hypervars, t_train, x_train, t_phys, models>>
    /\ UNCHANGED <<fn, model, lambda_, t_phys_t, optimizer, losses, epoch, grad, theta_log>>
    /\ UNCHANGED <<fdvars, rkvars, auxvars>>

\* loss.backward()
backward ==
    /\ pc = "backward"
    /\ grad' = Backward(fn, models[model].theta, models[model].requires_grad, grad,
                        LoopArgs)
    /\ pc' = "step"
    /\ UNCHANGED <<cell, hypervars, t_train, x_train, t_phys, models>>
    /\ UNCHANGED <<fn, model, lambda_, t_phys_t, optimizer, losses, epoch, loss, theta_log>>
    /\ UNCHANGED <<fdvars, rkvars, auxvars>>

\* Fault model: two updates per iteration.
optimizer_step_twice ==
    /\ pc = "step"
    /\ LET m1 == AdamMoments(optimizer.exp_avg, grad)
           m2 == AdamMoments(m1, grad)
           once == AdamStep(models[model].theta, m1, grad, optimizer.lr)
       IN  /\ models' = [models EXCEPT ![model].theta =
                                          AdamStep(once, m2, grad, optimizer.lr)]
           /\ optimizer' = [optimizer EXCEPT !.step = @ + 2, !.exp_avg = m2]
           /\ theta_log' = Append(Append(theta_log, models[model].theta), once)
    /\ pc' = "append"
    /\ UNCHANGED <<cell, hypervars, t_train, x_train, t_phys>>
    /\ UNCHANGED <<fn, model, lambda_, t_phys_t, losses, epoch, loss, grad>>
    /\ UNCHANGED <<fdvars, rkvars, auxvars>>

\* optimizer.step()
optimizer_step ==
    /\ pc = "step"
    /\ LET m == AdamMoments(optimizer.exp_avg, grad)
       IN  /\ models' = [models EXCEPT ![model].theta = AdamStep(@, m, grad, optimizer.lr)]
           /\ optimizer' = [optimizer EXCEPT !.step = @ + 1, !.exp_avg = m]
    /\ theta_log' = Append(theta_log, models[model].theta)
    /\ pc' = "append"
    /\ UNCHANGED <<cell, hypervars, t_train, x_train, t_phys>>
    /\ UNCHANGED <<fn, model, lambda_, t_phys_t, losses, epoch, loss, grad>>
    /\ UNCHANGED <<fdvars, rkvars, auxvars>>

\* Fault model: the loss is logged only where the progress bar shows it.
append_loss_sparse ==
    /\ pc = "append"
    /\ losses' = (IF (epoch - 1) % 2 = 0 \/ epoch = nepochs
                  THEN Append(losses, loss)
                  ELSE losses)
    /\ pc' = "for"
    /\ UNCHANGED <<cell, hypervars, t_train, x_train, t_phys, models>>
    /\ UNCHANGED <<fn, model, lambda_, t_phys_t, optimizer, epoch, loss, grad, theta_log>>
    /\ UNCHANGED <<fdvars, rkvars, auxvars>>

\* Fault model: the loop stops at the first loss that is not finite.
append_loss_checked ==
    /\ pc = "append"
    /\ losses' = Append(losses, loss)
    /\ pc' = (IF IsFinite(loss) THEN "for" ELSE "plot")
    /\ UNCHANGED <<cell, hypervars, t_train, x_train, t_phys, models>>
    /\ UNCHANGED <<fn, model, lambda_, t_phys_t, optimizer, epoch, loss, grad, theta_log>>
    /\ UNCHANGED <<fdvars, rkvars, auxvars>>

\* losses.append(loss.item()); the progress bar is refreshed and the iteration ends.
append_loss ==
    /\ pc = "append"
    /\ losses' = Append(losses, loss)
    /\ pc' = "for"
    /\ UNCHANGED <<cell, hypervars, t_train, x_train, t_phys, models>>
    /\ UNCHANGED <<fn, model, lambda_, t_phys_t, optimizer, epoch, loss, grad, theta_log>>
    /\ UNCHANGED <<fdvars, rkvars, auxvars>>

\* The loss curve is plotted and the function returns; its locals are gone.
train_return ==
    /\ pc = "plot"
    /\ fn' = "none"
    /\ model' = "none"
    /\ lambda_' = None
    /\ t_phys_t' = None
    /\ optimizer' = None
    /\ losses' = None
    /\ epoch' = 0
    /\ loss' = None
    /\ theta_log' = None
    /\ cell' = NextCell(nb, cell)
    /\ pc' = "cell"
    /\ UNCHANGED <<hypervars, t_train, x_train, t_phys, models, grad>>
    /\ UNCHANGED <<fdvars, rkvars, auxvars>>

\* Fault model: the integration takes an optimizer step on the gradients the
\* training left in the parameters' .grad fields.
integrate_updating ==
    /\ cell \in {"integrate_snn", "integrate_phnn"}
    /\ pc = "cell"
    /\ rpc = "idle"
    /\ impl' = "torch"
    /\ LET nm == IF cell = "integrate_snn" THEN "model_snn" ELSE "model_phnn"
       IN  /\ models' = [models EXCEPT ![nm].theta =
                                          AdamStep(@, AdamMoments(<<>>, grad), grad,
                                                   learning_rate)]
           /\ g' = [kind |-> models[nm].cls, th |-> models'[nm].theta]
    /\ x0' = [c \in Idx(2) |-> IF c = 0 THEN Z(1) ELSE FNeg(FDiv(MU, Z(2)))]
    /\ t_end' = Z(TMAX_TEST)
    /\ dt' = FDiv(Z(TMAX_TEST), Z(N_TEST))
    /\ rpc' = "call"
    /\ pc' = "rk4"
    /\ UNCHANGED <<num_steps, i, xr, solution>>
    /\ UNCHANGED <<cell, hypervars, t_train, x_train, t_phys, loopvars>>
    /\ UNCHANGED <<fdvars, auxvars>>

\* x_test_snn = rk4(model_snn, x0, t_test[-1], TMAX_TEST/N_TEST), and the same for
\* model_phnn: the call.
integrate ==
    /\ cell \in {"integrate_snn", "integrate_phnn"}
    /\ pc = "cell"
    /\ rpc = "idle"
    /\ impl' = "torch"
    /\ g' = (IF cell = "integrate_snn"
             THEN [kind |-> "FNN", th |-> models["model_snn"].theta]
             ELSE [kind |-> "PHNN", th |-> models["model_phnn"].theta])
    /\ x0' = [c \in Idx(2) |-> IF c = 0 THEN Z(1) ELSE FNeg(FDiv(MU, Z(2)))]
    /\ t_end' = Z(TMAX_TEST)
    /\ dt' = FDiv(Z(TMAX_TEST), Z(N_TEST))
    /\ rpc' = "call"
    /\ pc' = "rk4"
    /\ UNCHANGED <<num_steps, i, xr, solution>>
    /\ UNCHANGED <<cell, hypervars, t_train, x_train, t_phys, models, loopvars>>
    /\ UNCHANGED <<fdvars, auxvars>>

\* rk4 has returned: the cell goes on.
integrate_done ==
    /\ pc = "rk4"
    /\ rpc = "returned"
    /\ rpc' = "idle"
    /\ cell' = NextCell(nb, cell)
    /\ pc' = "cell"
    /\ UNCHANGED <<impl, g, x0, t_end, dt, num_steps, i, xr, solution>>
    /\ UNCHANGED <<hypervars, t_train, x_train, t_phys, models, loopvars>>
    /\ UNCHANGED <<fdvars, auxvars>>

\* The data cell of the PINN notebook alone, over a wider range of ODE parameters.
InitData ==
    /\ IdleRK
    /\ IdleFD
    /\ IdleAux
    /\ nb = "pinn"
    /\ cell = "data"
    /\ pc = "cell"
    /\ MU \in DataParams
    /\ K \in DataParams
    /\ nepochs = 0
    /\ learning_rate = Z(1)
    /\ t_train = None
    /\ x_train = None
    /\ t_phys = None
    /\ models = None
    /\ fn = "none"
    /\ model = "none"
    /\ lambda_ = None
    /\ t_phys_t = None
    /\ optimizer = None
    /\ losses = None
    /\ epoch = 0
    /\ loss = None
    /\ grad = None
    /\ theta_log = None

NextData == exact_solution

SpecData == InitData /\ [][NextData]_vars

Next ==
    \/ exact_solution
    \/ get_training_data
    \/ sample_t_phys
    \/ construct_model
    \/ train_begin
    \/ loop_head
    \/ zero_grad
    \/ data_loss
    \/ phys_loss
    \/ backward
    \/ optimizer_step
    \/ append_loss
    \/ train_return
    \/ integrate
    \/ rk4_begin
    \/ rk4_iterate
    \/ rk4_return
    \/ integrate_done

Spec == Init /\ [][Next]_vars

\* Sequential execution: a training loop that can take a step eventually takes it.
FairSpec == Spec /\ WF_vars(pc \in {"for", "zero_grad", "data_loss", "phys_loss",
                                     "backward", "step", "append"} /\ Next)

(***************************************************************************)
(* Properties.                                                             *)
(***************************************************************************)
BodyPcs == {"zero_grad", "data_loss", "phys_loss", "backward", "step", "append"}

LoopPcs == BodyPcs \cup {"for"}

InLoop == pc \in LoopPcs

Training == pc \in LoopPcs \cup {"plot"}

NonFinite(s) == {a \in 1 .. Len(s) : ~IsFinite(s[a])}

C1_Budget ==
    /\ Training => optimizer.step <= nepochs /\ epoch <= nepochs
    /\ pc \in BodyPcs => optimizer.step < nepochs \/ pc = "append"
    /\ pc = "plot" => optimizer.step = nepochs /\ epoch = nepochs

C1_Moves ==
    /\ pc = "cell" /\ pc' \in LoopPcs => pc' = "for" /\ epoch' = 0 /\ optimizer'.step = 0
    /\ InLoop => pc' \in LoopPcs \cup {"plot"}
    /\ InLoop /\ pc' = "plot" => pc = "for" /\ optimizer.step = nepochs
    /\ pc = "plot" => pc' = "cell"

\* C1: every training loop takes exactly nepochs optimizer steps and then
\* terminates.  It is entered at its head with no step taken, stays in the loop
\* until the budget is used up, takes no step beyond it, is left only from the
\* head with nepochs steps taken, and once entered it always reaches its end.
C1_ExactlyNepochsSteps ==
    /\ []C1_Budget
    /\ [][C1_Moves]_vars
    /\ (InLoop ~> pc = "plot")

C1_Witness ==
    /\ pc = "plot"
    /\ nepochs = MaxEpochs
    /\ optimizer.step = MaxEpochs
    /\ fn = "train_kdv"

C2_Length ==
    /\ pc \in {"for", "plot"} => Len(losses) = epoch /\ Len(losses) = optimizer.step
    /\ pc \in BodyPcs => Len(losses) = epoch - 1
    /\ pc = "plot" => Len(losses) = nepochs

C2_AppendOnly ==
    Training /\ pc # "plot" =>
        \/ losses' = losses
        \/ \E v \in {loss} : losses' = Append(losses, v)

C3_IterationOrder ==
    Training =>
        /\ Len(theta_log) = optimizer.step
        /\ optimizer.step = Len(losses) + (IF pc = "append" THEN 1 ELSE 0)
        /\ pc \in {"backward", "step"} =>
               loss = TotalLoss(fn, models[model].theta, LoopArgs)
        /\ pc = "step" =>
               grad = Backward(fn, models[model].theta, models[model].requires_grad,
                               <<>>, LoopArgs)
        /\ pc = "append" => loss = TotalLoss(fn, theta_log[Len(theta_log)], LoopArgs)
        /\ \A a \in 1 .. Len(losses) : losses[a] = TotalLoss(fn, theta_log[a], LoopArgs)

C3_Witness ==
    /\ pc = "append"
    /\ Len(losses) = 2
    /\ fn = "train"
    /\ losses[1] # losses[2]
    /\ theta_log[2] # models[model].theta

C4_Residual(th, t, mu, k) ==
    FAdd(FAdd(NetDDot(th, t), FMul(mu, NetDot(th, t))), FMul(k, NetForward(th, t)))

C4_Loss(th, mu, k) ==
    FAdd(FMean([a \in 1 .. N_TRAIN + 1 |->
                   FSq(FSub(NetForward(th, t_train[a - 1]), x_train[a - 1]))]),
         FMul(Q(1, 10),
              FMean([a \in 1 .. N_PHYS |->
                        FSq(C4_Residual(th, t_phys[a - 1], mu, k))])))

\* C4: in both PINN training functions the loss handed to backward is the mean
\* squared error at the training times plus 0.1 times the mean over the
\* collocation points of the squared residual xddot + mu*xdot + k*x, with mu and
\* k the constants MU and K in the first function and the model's own mu and k
\* in the second.
C4_PinnLoss ==
    Training /\ fn \in PinnFns =>
        /\ lambda_ = Q(1, 10)
        /\ pc \in {"backward", "step"} =>
               LET th == models[model].theta
               IN  loss = (IF fn = "train_pinn" THEN C4_Loss(th, MU, K)
                           ELSE C4_Loss(th, th["mu"], th["k"]))

C4_Witness ==
    /\ pc = "backward"
    /\ fn = "train_pinn_params"
    /\ epoch = 2
    /\ models[model].theta["k"] # Z(0)
    /\ IsFinite(loss)
    /\ loss # DataLoss(models[model].theta, t_train, x_train)

C5_Half(v) == [c \in DOMAIN v |-> FDiv(v[c], Z(2))]

C5_ClassicalStep(xx) ==
    LET k1 == VScale(dt, Field(g, xx))
        k2 == VScale(dt, Field(g, VAdd(xx, C5_Half(k1))))
        k3 == VScale(dt, Field(g, VAdd(xx, C5_Half(k2))))
        k4 == VScale(dt, Field(g, VAdd(xx, k3)))
        s == VAdd(VAdd(VAdd(k1, VScale(Z(2), k2)), VScale(Z(2), k3)), k4)
    IN  VAdd(xx, [c \in DOMAIN s |-> FDiv(s[c], Z(6))])

\* C5: the sequence rk4 returns starts with the initial state, and each later
\* element is the classical four-stage step, with step size dt, of the element
\* before it.
C5_Rk4Sequence ==
    rpc = "returned" =>
        /\ DOMAIN solution = 0 .. num_steps
        /\ solution[0] = x0
        /\ \A a \in 1 .. num_steps : solution[a] = C5_ClassicalStep(solution[a - 1])

C5_Witness ==
    /\ rpc = "returned"
    /\ num_steps >= 2
    /\ g.kind = "PHNN"
    /\ solution[2] # solution[1]
    /\ solution[1] # solution[0]

C6_Circulant(A, m, stencil) ==
    \A r \in Idx(m), c \in Idx(m) :
        A[r][c] = (IF ((c - r) % m) \in DOMAIN stencil THEN stencil[(c - r) % m] ELSE Z(0))

C6_h == FDiv(Z(period), Z(spatial_points))

C6_StencilDp == (0 :> FDiv(Z(-1), C6_h)) @@ (1 :> FDiv(Z(1), C6_h))

C6_StencilD1 ==
    ((spatial_points - 1) :> FDiv(Z(-1), FMul(Z(2), C6_h)))
    @@ (1 :> FDiv(Z(1), FMul(Z(2), C6_h)))

C6_StencilD2 ==
    ((spatial_points - 1) :> FDiv(Z(1), FSq(C6_h)))
    @@ (0 :> FDiv(Z(-2), FSq(C6_h)))
    @@ (1 :> FDiv(Z(1), FSq(C6_h)))

\* C6: for a grid of M >= 3 points the matrices Dp, D1 and D2 of
\* setup_KdV_system and the rebuilt D1 and D2 are circulant, entry (i, j) being
\* the stencil value at (j - i) mod M: Dp has -1 at 0 and +1 at 1 over dx, D1 has
\* -1 at -1 and +1 at 1 over 2*dx, D2 has 1, -2, 1 at -1, 0, 1 over dx*dx.
C6_CirculantMatrices ==
    spatial_points >= 3 =>
        /\ kpc # "error"
        /\ kpc \in {"setup", "data", "operators", "applied"} =>
               /\ C6_Circulant(KdV_system.Dp, spatial_points, C6_StencilDp)
               /\ C6_Circulant(KdV_system.skewsymmetric_matrix, spatial_points,
                               C6_StencilD1)
               /\ C6_Circulant(KdV_system.D2, spatial_points, C6_StencilD2)
        /\ kpc \in {"operators", "applied"} =>
               /\ C6_Circulant(D1, spatial_points, C6_StencilD1)
               /\ C6_Circulant(D2, spatial_points, C6_StencilD2)

C6_Witness ==
    /\ kpc = "operators"
    /\ spatial_points = MaxM
    /\ D1[0][MaxM - 1] = FDiv(Z(-1), FMul(Z(2), C6_h))
    /\ KdV_system.Dp[MaxM - 1][0] = FDiv(Z(1), C6_h)

C7_SkewSymmetric(A, m) == \A r \in Idx(m), c \in Idx(m) : A[r][c] = FNeg(A[c][r])

\* C7: for a grid of M >= 3 points the matrix D1 handed to the KdV system and
\* the rebuilt D1 are skew-symmetric, corners included; every grid vector, and
\* the vector D1 is applied to in true_f and learned_hnn_f, is orthogonal to its
\* image under D1.
C7_D1SkewSymmetric ==
    spatial_points >= 3 =>
        /\ kpc \in {"setup", "data", "operators", "applied"} =>
               C7_SkewSymmetric(KdV_system.skewsymmetric_matrix, spatial_points)
        /\ kpc \in {"operators", "applied"} =>
               /\ C7_SkewSymmetric(D1, spatial_points)
               /\ Dot(u0, MatVec(D1, u0)) = Z(0)
        /\ kpc = "applied" => Dot(dH, SdH) = Z(0)

C7_Witness ==
    /\ kpc = "applied"
    /\ spatial_points = MaxM
    /\ \E c \in Idx(MaxM) : SdH[c] # Z(0)
    /\ D1[0][MaxM - 1] = FNeg(D1[MaxM - 1][0])
    /\ D1[0][MaxM - 1] # Z(0)

C8_MassSpring == nb \in {"pinn", "phnn"}

C8_Underdamped == MU.n * MU.n * K.d < 4 * K.n * MU.d * MU.d

C8_Aborted ==
    /\ pc = "aborted" =>
           /\ C8_MassSpring
           /\ ~C8_Underdamped
           /\ cell = "data"
    /\ C8_MassSpring /\ ~C8_Underdamped =>
           /\ cell = "data"
           /\ pc \in {"cell", "aborted"}
           /\ x_train = None
           /\ models = None
           /\ optimizer = None
           /\ losses = None
           /\ rpc = "idle"
           /\ solution = None

C8_Moves ==
    /\ C8_MassSpring /\ cell = "data" /\ pc = "cell" =>
           (pc' = "aborted" <=> ~C8_Underdamped)
    /\ pc # "aborted"

\* C8: exact_solution fails exactly when mu^2 < 4*k does not hold, the critically
\* damped case and k <= 0 included.  After the failure there are no samples, no
\* model is built, no training loop and no integration is started, and no
\* further step is taken; with mu^2 < 4*k the run is never aborted.
C8_AssertUnderdamped == []C8_Aborted /\ [][C8_Moves]_vars

C8_Witness ==
    /\ pc = "aborted"
    /\ nb = "phnn"
    /\ MU = Z(4)
    /\ K = Z(4)

C9_Moves ==
    /\ pc = "append" /\ ~IsFinite(loss) => losses' = Append(losses, loss) /\ pc' = "for"
    /\ InLoop /\ (NonFinite(losses) # {}
                   \/ (pc \in {"phys_loss", "backward", "step"} /\ ~IsFinite(loss))) =>
           /\ pc' \in LoopPcs \cup {"plot"}
           /\ pc = "for" /\ epoch < nepochs => pc' = "zero_grad"
           /\ pc = "step" => optimizer'.step = optimizer.step + 1

\* C9: a loss that is infinite or NaN is appended to the trace like any other and
\* the loop goes on: it enters no error state, takes the remaining steps of the
\* budget and ends with nepochs entries.
C9_DivergenceUnnoticed ==
    /\ [](pc = "plot" /\ NonFinite(losses) # {} =>
              Len(losses) = nepochs /\ optimizer.step = nepochs)
    /\ [][C9_Moves]_vars

C9_Witness ==
    /\ pc = "plot"
    /\ nepochs = MaxEpochs
    /\ Len(losses) = MaxEpochs
    /\ \E a \in 1 .. MaxEpochs - 1 : losses[a] = Inf(1) /\ IsNaN(losses[a + 1])

C10_Frame ==
    InLoop =>
        /\ UNCHANGED <<t_train, x_train, t_phys, t_phys_t>>
        /\ UNCHANGED <<MU, K, nepochs, learning_rate, lambda_, fn, model>>
        /\ UNCHANGED <<fdvars, rkvars>>
        /\ optimizer'.lr = optimizer.lr
        /\ optimizer'.params = optimizer.params
        /\ DOMAIN models' = DOMAIN models
        /\ \A nm \in DOMAIN models :
               /\ models'[nm].cls = models[nm].cls
               /\ models'[nm].requires_grad = models[nm].requires_grad
               /\ DOMAIN models'[nm].theta = DOMAIN models[nm].theta
               /\ nm # model \/ pc # "step" => models'[nm] = models[nm]
               /\ \A p \in DOMAIN models[nm].theta :
                      ~models[nm].requires_grad[p] =>
                          models'[nm].theta[p] = models[nm].theta[p]

CellIndex(notebook, c) == CHOOSE a \in 1 .. Len(Cells(notebook)) : Cells(notebook)[a] = c

C11_TrainedIn(nm) == CHOOSE c \in TrainCells : TrainModel(c) = nm

C11_Trained(nm) ==
    /\ nm \in DOMAIN models
    /\ \E a \in 1 .. Len(Cells(nb)) : Cells(nb)[a] = C11_TrainedIn(nm)
    /\ CellIndex(nb, cell) > CellIndex(nb, C11_TrainedIn(nm))

C11_Inference == pc = "rk4" \/ (pc = "cell" /\ cell \in {"integrate_snn", "integrate_phnn"})

C11_Moves ==
    /\ \A nm \in DOMAIN models : C11_Trained(nm) => models'[nm] = models[nm]
    /\ \A nm \in DOMAIN models :
          models'[nm] # models[nm] => pc = "step" /\ model = nm /\ cell = C11_TrainedIn(nm)
    /\ C11_Inference =>
          /\ models' = models
          /\ optimizer = None /\ optimizer' = None
          /\ pc' \in {"rk4", "cell"}
          /\ \A nm \in DOMAIN models : C11_Trained(nm)

\* C11: parameters are frozen at inference.  Once the cell that trains a model has
\* finished, no step of the notebook changes a parameter of that model; a
\* parameter changes only in the optimizer step of the model's own training loop;
\* and the rk4 integration of a model, which evaluates it in every stage, starts
\* only when every model is trained, leaves all parameters as they are and has no
\* optimizer.
C11_FrozenAtInference == [][C11_Moves]_vars

C11_Witness ==
    /\ cell = "integrate_phnn"
    /\ pc = "rk4"
    /\ rpc = "loop"
    /\ i = N_TEST
    /\ nepochs = MaxEpochs
    /\ models["model_phnn"].theta # PHNN(<<Z(1), Z(-1)>>).theta
    /\ models["model_phnn"].theta # PHNN(<<Z(0), Z(0)>>).theta

\* The explicit physical constants of a model class.
PhysicalConstants(cls) ==
    IF cls = "PINN" THEN {"mu", "k"} ELSE IF cls = "PHNN" THEN {"mu"} ELSE {}

\* C12 as stated: in the parameter-discovery variants the physical constants
\* (PINN.mu, PINN.k, PHNN.mu) belong to the parameters each optimizer step
\* updates: when a step is about to be taken each of them has a gradient.
C12_ConstantsLearnable ==
    pc = "step" => \A p \in PhysicalConstants(models[model].cls) : p \in DOMAIN grad

C12_Updated(v, m, gr, lr) ==
    LET avg == FAdd(FMul(Q(9, 10), m), FMul(Q(1, 10), gr))
    IN  IF gr.d # 0 /\ avg.d # 0
        THEN FSub(v, FMul(lr, Z(IF avg.n > 0 THEN 1 ELSE IF avg.n < 0 THEN -1 ELSE 0)))
        ELSE NaN

C12_State ==
    /\ pc = "step" /\ models[model].cls = "PINN" => {"mu", "k"} \subseteq DOMAIN grad
    /\ Training /\ models[model].cls = "PHNN" => "mu" \notin DOMAIN grad
    /\ \A nm \in DOMAIN models :
          models[nm].cls = "PHNN" => models[nm].theta["mu"] = Z(0)

C12_Moves ==
    pc = "step" /\ models[model].cls = "PINN" =>
        \A p \in {"mu", "k"} :
            models'[model].theta[p] =
                C12_Updated(models[model].theta[p],
                            IF p \in DOMAIN optimizer.exp_avg
                            THEN optimizer.exp_avg[p] ELSE Z(0),
                            grad[p], learning_rate)

\* C12, amended: PINN.mu and PINN.k have a gradient at every optimizer step of
\* their training and the step updates them with the weights; PHNN.mu never has
\* a gradient, no step touches it, and it keeps its construction value 0.0
\* during and after training.
C12_PinnConstantsLearnable == []C12_State /\ [][C12_Moves]_vars

C12_Witness ==
    /\ pc = "plot"
    /\ fn = "train_pinn_params"
    /\ nepochs = MaxEpochs
    /\ models[model].theta["mu"] # Z(0)
    /\ models[model].theta["k"] # Z(0)
    /\ IsFinite(models[model].theta["mu"])

C13_Constructed == DOMAIN models' \ DOMAIN models

\* C13 as stated, for the physical constants: the value a constructor gives mu
\* and k is a draw from the random state and not the fixed constant 0.0.
C13_ConstantsDrawn ==
    [][\A nm \in C13_Constructed :
          \A p \in PhysicalConstants(models'[nm].cls) : models'[nm].theta[p] # Z(0)]_vars

C13_Moves ==
    \A nm \in C13_Constructed :
        LET m == models'[nm]
        IN  /\ \A p \in PhysicalConstants(m.cls) : m.theta[p] = Z(0)
            /\ \E w \in WInit3 \cup WInit2 :
                   /\ Len(w) = Cardinality(DOMAIN m.theta \ PhysicalConstants(m.cls))
                   /\ \A a \in 1 .. Len(w) :
                          m.theta[<<"w0", "w1", "w2">>[a]] = w[a]

\* C13, amended: a constructor draws the network weights from the random state
\* and sets the physical constants (PINN.mu, PINN.k, PHNN.mu) to the fixed
\* constant 0.0, whatever the weights drawn.
C13_ConstantsStartAtZero == [][C13_Moves]_vars

C13_Witness ==
    /\ cell = "train_pinn2"
    /\ pc = "cell"
    /\ models["model_pinn2"].theta["w0"] = Z(1)
    /\ models["model_pinn2"].theta["w1"] = Z(-1)
    /\ models["model_pinn2"].theta["mu"] = Z(0)
    /\ models["model_pinn2"].theta["k"] = Z(0)

C14_Shared == {a \in Idx(N_PHYS) : \E b \in Idx(N_TRAIN + 1) : t_phys[a] = t_train[b]}

C15_Own == Cells(nb)[CellIndex(nb, cell) - 1]

C15_Moves ==
    /\ \A nm \in DOMAIN models :
          models'[nm] # models[nm] => InLoop /\ cell \in TrainCells /\ nm = C15_Own
    /\ Training => /\ t_train' = t_train /\ x_train' = x_train /\ t_phys' = t_phys
                   /\ DOMAIN models' = DOMAIN models
                   /\ cell' = cell \/ (pc = "plot" /\ pc' = "cell")
    /\ pc' = "for" /\ pc = "cell" =>
          /\ fn = "none" /\ optimizer = None /\ losses = None
          /\ losses' = <<>> /\ optimizer'.step = 0 /\ optimizer'.params = C15_Own
    /\ Training /\ pc' = "cell" =>
          /\ pc = "plot" /\ epoch = nepochs
          /\ fn' = "none" /\ optimizer' = None /\ losses' = None

\* C15: training runs are sequential and share no mutable state.  A loop starts
\* only when no other loop is running, with a fresh optimizer and a fresh loss
\* trace, and the cell moves on only when the loop has used up its budget; while
\* it runs, the only model whose parameters change is the one constructed for
\* this call, no model is created, and the training data and collocation points
\* stay as they are; at its return its optimizer and trace are gone.
C15_RunsIndependent == [][C15_Moves]_vars

C15_Witness ==
    /\ cell = "train_pinn2"
    /\ pc = "plot"
    /\ nepochs = MaxEpochs
    /\ models["model_nn"].theta # models["model_pinn"].theta
    /\ \A nm \in {"model_nn", "model_pinn", "model_pinn2"} :
          /\ <<models[nm].theta["w0"], models[nm].theta["w1"], models[nm].theta["w2"]>>
                \notin WInit3
          /\ IsFinite(models[nm].theta["w0"])

\* Entry (n, c, j) of a tensor of shape (N, 2, TRAJ_TRAIN): time, component, trajectory.
C16_Entry(t, n, c, j) == t.data[(n * 2 + c) * TRAJ_TRAIN + j]

\* Entry (r, c) of a tensor with rows of 2 components.
C16_Row(t, r, c) == t.data[r * 2 + c]

C16_Stacked(flat, t) ==
    /\ flat.shape = <<TRAJ_TRAIN * n_train, 2>>
    /\ DOMAIN flat.data = Idx(TRAJ_TRAIN * n_train * 2)
    /\ \A j \in Idx(TRAJ_TRAIN), n \in Idx(n_train), c \in Idx(2) :
          C16_Row(flat, j * n_train + n, c) = C16_Entry(t, n, c, j)

\* C16: the stacking is lossless.  For every TRAJ_TRAIN >= 1 and N_TRAIN >= 1 both
\* stacked tensors have TRAJ_TRAIN * N_TRAIN rows of 2 components, row
\* j * N_TRAIN + n is the (q, p) of interval n of trajectory j of the unstacked
\* tensor, in x_midpoint_reshaped and in dxdt_reshaped alike, so that a midpoint
\* row (x[n] + x[n+1]) / 2 meets the difference quotient (x[n+1] - x[n]) / dt of
\* the same trajectory and interval.
C16_StackingLossless ==
    /\ x_midpoint_reshaped # None => C16_Stacked(x_midpoint_reshaped, x_midpoint)
    /\ dxdt_reshaped # None =>
          /\ C16_Stacked(dxdt_reshaped, dxdt)
          /\ \A j \in Idx(TRAJ_TRAIN), n \in Idx(n_train), c \in Idx(2) :
                LET r == j * n_train + n
                    a == C16_Entry(x_train, n, c, j)
                    b == C16_Entry(x_train, n + 1, c, j)
                    h == FDiv(Z(TMAX_TRAIN), Z(n_train))
                IN  /\ C16_Row(x_midpoint_reshaped, r, c) = FDiv(FAdd(a, b), Z(2))
                    /\ C16_Row(dxdt_reshaped, r, c) = FDiv(FSub(b, a), h)

C16_Witness ==
    /\ spc = "dxdt_reshaped"
    /\ TRAJ_TRAIN = MaxTraj
    /\ n_train = MaxN
    /\ C16_Row(x_midpoint_reshaped, (MaxTraj - 1) * MaxN + MaxN - 1, 1) = Z(-1)
    /\ C16_Row(dxdt_reshaped, (MaxTraj - 1) * MaxN + MaxN - 1, 1) # Z(0)

C17_Admissible == MU.n * MU.n * K.d < 4 * K.n * MU.d * MU.d

\* C17: with zero noise the first training sample is at t = 0 with target 1.0 for
\* every admissible pair (mu^2 < 4k): such a pair never aborts the data cell, and
\* the training times are N_TRAIN + 1 evenly spaced values from 0 to TMAX_TRAIN
\* inclusive.
C17_FirstSample ==
    /\ C17_Admissible => pc # "aborted"
    /\ x_train # None =>
          /\ C17_Admissible
          /\ NOISE_STD = 0
          /\ DOMAIN x_train = Idx(N_TRAIN + 1)
          /\ t_train[0] = Z(0)
          /\ x_train[0] = Z(1)
    /\ t_train # None =>
          /\ DOMAIN t_train = Idx(N_TRAIN + 1)
          /\ t_train[0] = Z(0)
          /\ t_train[N_TRAIN] = Z(TMAX_TRAIN)
          /\ \A j \in Idx(N_TRAIN + 1) :
                IsFinite(t_train[j]) /\ t_train[j].n * N_TRAIN = j * TMAX_TRAIN * t_train[j].d

C17_Witness ==
    /\ x_train # None
    /\ MU = Q(2, 5)
    /\ K = Z(4)
    /\ x_train[0] = Z(1)
    /\ x_train[N_TRAIN] = Q(-1, 2)

C19_Skew == <<<<0, 1>>, <<-1, 0>>>>

\* C19: in every sequence of calls of PHNN.forward each call returns, for each
\* input row, the structure matrix [[0, 1], [-1, -mu]] times the gradient of the
\* learned Hamiltonian, (dH/dp, -dH/dq - mu * dH/dp), with the mu of the module;
\* the stored self.S is [[0, 1], [-1, 0]] before, during and after every call.
C19_ForwardStructure ==
    /\ \A r \in Idx(2), c \in Idx(2) : self_S[r][c] = Z(C19_Skew[r + 1][c + 1])
    /\ fpc = "returned" =>
          /\ DOMAIN fout = DOMAIN fx
          /\ \A r \in DOMAIN fx :
                LET mu == self_theta["mu"]
                    dHdq == FMul(self_theta["w0"], fx[r][0])
                    dHdp == FMul(self_theta["w1"], fx[r][1])
                IN  /\ fout[r][0] = dHdp
                    /\ fout[r][1] = FSub(FNeg(dHdq), FMul(mu, dHdp))
                    /\ fout[r] = PhnnForward(self_theta, fx[r])

C19_Witness ==
    /\ fpc = "returned"
    /\ calls = MaxCalls
    /\ self_theta["mu"] = Q(1, 2)
    /\ VSize(fx) = 2
    /\ fout[1][1] = Q(-5, 2)

\* C20: the output respects the energy decomposition.  For the gradient
\* dH = (a, b) of a row and the value v returned for it, dH . v = -mu * b^2,
\* which is 0 when mu = 0 and at most 0 when mu >= 0.
C20_EnergyDecomposition ==
    fpc = "returned" =>
        \A r \in DOMAIN fx :
            LET mu == self_theta["mu"]
                b == fdH[r][1]
                e == Dot(fdH[r], fout[r])
            IN  /\ e = FNeg(FMul(mu, FMul(b, b)))
                /\ mu = Z(0) => e = Z(0)
                /\ mu.n >= 0 => e.n <= 0

C20_Witness ==
    /\ fpc = "returned"
    /\ self_theta["mu"] = Z(1)
    /\ \E r \in DOMAIN fx : fdH[r][0] # Z(0) /\ Dot(fdH[r], fout[r]) = Z(-1)

\* Time i of the training grid.
C21_Time(a) == t_train.data[a]

\* C21: the training pairs are the implicit midpoint scheme on consecutive
\* samples.  From samples x_0..x_N exactly N pairs are formed per trajectory and
\* component; pair i (1 <= i <= N) is the midpoint (x_{i-1} + x_i) / 2 with the
\* difference quotient (x_i - x_{i-1}) / (t_i - t_{i-1}), both of one trajectory;
\* the row roll wraps around (x_N with x_0) is not among them.
C21_MidpointPairs ==
    /\ x_midpoint # None =>
          /\ x_midpoint.shape = <<n_train, 2, TRAJ_TRAIN>>
          /\ DOMAIN x_midpoint.data = Idx(n_train * 2 * TRAJ_TRAIN)
          /\ \A a \in 1 .. n_train, c \in Idx(2), j \in Idx(TRAJ_TRAIN) :
                C16_Entry(x_midpoint, a - 1, c, j) =
                    FDiv(FAdd(C16_Entry(x_train, a - 1, c, j), C16_Entry(x_train, a, c, j)),
                         Z(2))
    /\ dxdt # None =>
          /\ dxdt.shape = <<n_train, 2, TRAJ_TRAIN>>
          /\ DOMAIN dxdt.data = Idx(n_train * 2 * TRAJ_TRAIN)
          /\ \A a \in 1 .. n_train, c \in Idx(2), j \in Idx(TRAJ_TRAIN) :
                C16_Entry(dxdt, a - 1, c, j) =
                    FDiv(FSub(C16_Entry(x_train, a, c, j), C16_Entry(x_train, a - 1, c, j)),
                         FSub(C21_Time(a), C21_Time(a - 1)))

\* The last sample of the second trajectory is the only non-zero one: it enters
\* the last pair and, were the wrapped row kept, the pair of x_N with x_0.
C21_Witness ==
    /\ spc = "dxdt"
    /\ TRAJ_TRAIN = MaxTraj
    /\ n_train = MaxN
    /\ C16_Entry(x_train, MaxN, 0, MaxTraj - 1) = Z(1)
    /\ C16_Entry(x_midpoint, MaxN - 1, 0, MaxTraj - 1) = Q(1, 2)
    /\ C16_Entry(x_midpoint, 0, 0, MaxTraj - 1) = Z(0)
    /\ C16_Entry(dxdt, MaxN - 1, 0, MaxTraj - 1) # Z(0)

\* C22: each training trajectory contains N_TRAIN data points and TMAX_TRAIN is
\* the time of the last of them.
C22_DataPointCounts ==
    x_train # None =>
        /\ x_train.shape[1] = n_train
        /\ t_train.shape[1] = n_train
        /\ t_train.data[t_train.shape[1] - 1] = Z(TMAX_TRAIN)

\* C23: N_TRAIN is the number of training states: whenever get_training_data
\* returns (nt >= 1), the ntrajectories_train * nt states it generates are
\* N_TRAIN many.
C23_TrainingStates ==
    gpc = "returned" =>
        /\ nt >= 1
        /\ ntrajectories_train * nt = data_points
        /\ traindata.nstates = data_points

C24_Central(v, m, h) ==
    [a \in Idx(m) |-> FDiv(FSub(v[(a + 1) % m], v[(a + m - 1) % m]), FMul(Z(2), h))]

\* C24: the operator HNN.forward applies in training (periodic padding of dH,
\* then the kernel [-1, 0, 1] / (2 * dx)) is the map of the matrix D1 that
\* learned_hnn_f and true_f apply: for every grid of M >= 3 points and every
\* state u0, with dH the gradient of the learned Hamiltonian at u0, output i of
\* forward is (dH[(i+1) mod M] - dH[(i-1) mod M]) / (2 * dx) = (D1 dH)[i].
C24_ForwardIsD1 ==
    /\ D1 # None /\ dx # None =>
          /\ spatial_points >= 3
          /\ HnnForward(hnn, u0, dx) = MatVec(D1, HnnGrad(hnn, u0))
          /\ HnnForward(hnn, u0, dx) = C24_Central(HnnGrad(hnn, u0), spatial_points, dx)
          /\ LearnedHnnF(hnn, u0, D1) = HnnForward(hnn, u0, dx)
    /\ kpc = "applied" => SdH = C24_Central(dH, spatial_points, dx)

C24_Witness ==
    /\ kpc = "applied"
    /\ spatial_points = MaxM
    /\ dH = HnnGrad(hnn, u)
    /\ SdH = HnnForward(hnn, u, dx)
    /\ \E a \in Idx(MaxM) : SdH[a] # Z(0) /\ SdH[(a + 1) % MaxM] = Z(0)

\* The gradients of the loss of the running iteration, for the parameters that
\* require grad.
C25_StepGradients ==
    [name \in {nm \in DOMAIN models[model].theta : models[model].requires_grad[nm]} |->
        LossGrad(fn, models[model].theta, LoopArgs, name)]

C25_State ==
    /\ pc \in {"data_loss", "phys_loss", "backward"} => grad = <<>>
    /\ pc = "step" => grad = C25_StepGradients

C25_Moves ==
    pc = "step" =>
        LET m == AdamMoments(optimizer.exp_avg, C25_StepGradients)
        IN  /\ optimizer'.exp_avg = m
            /\ models'[model].theta =
                  AdamStep(models[model].theta, m, C25_StepGradients, learning_rate)

\* C25, amended: the gradients handed to the optimizer at a step are those of
\* that step's loss alone.  They are reset at the start of every iteration, so
\* that before backward no parameter has one and at the optimizer step each is
\* the gradient of the loss just evaluated, in every loop (retain_graph=True or
\* not).  The update is Adam's: it is computed from these gradients and from the
\* optimizer's running average of the gradients of the earlier steps.
C25_NoGradientAccumulation == []C25_State /\ [][C25_Moves]_vars

C25_Witness ==
    /\ pc = "append"
    /\ fn = "train_kdv"
    /\ optimizer.step = MaxEpochs
    /\ theta_log[2] # theta_log[1]
    /\ theta_log[3] # theta_log[2]
    /\ \E name \in DOMAIN grad : IsFinite(grad[name]) /\ grad[name] # Z(0)
    /\ optimizer.exp_avg # AdamMoments(<<>>, grad)

\* C25 as stated: the parameter update of a step uses only the gradients of that
\* step's loss, that is, it is the update of an optimizer that has seen no
\* earlier gradient.
C25_UpdateFromStepAlone ==
    [][pc = "step" =>
          models'[model].theta =
              AdamStep(models[model].theta, AdamMoments(<<>>, C25_StepGradients),
                       C25_StepGradients, learning_rate)]_vars

C26_ColumnSum(A, c) == FSumTo([r \in DOMAIN A |-> A[r][c]], VSize(A))

C26_Finite(v) == \A c \in DOMAIN v : IsFinite(v[c])

C27_Floor(a, b) == (a.n * b.d) \div (a.d * b.n)

\* C27: for every horizon t_end > 0 and step size dt > 0 both rk4 return
\* floor(t_end/dt) + 1 states, the i-th at time i*dt, and none for a time
\* greater than t_end.
C27_StatesUpToHorizon ==
    rpc = "returned" /\ t_end.n > 0 =>
        /\ DOMAIN solution = 0 .. C27_Floor(t_end, dt)
        /\ \A k \in DOMAIN solution : k * dt.n * t_end.d <= t_end.n * dt.d

RECURSIVE C28_Pow(_, _)
C28_Pow(r, n) == IF n = 0 THEN Z(1) ELSE FMul(r, C28_Pow(r, n - 1))

\* 1 + z + z^2/2 + z^3/6 + z^4/24
C28_R(z) ==
    FAdd(FAdd(FAdd(Z(1), z), FDiv(C28_Pow(z, 2), Z(2))),
         FAdd(FDiv(C28_Pow(z, 3), Z(6)), FDiv(C28_Pow(z, 4), Z(24))))

C28_State ==
    rpc \in {"loop", "returned"} /\ g.kind = "linear" =>
        \A k \in 0 .. (i - 1) :
            solution[k][0] = FMul(x0[0], C28_Pow(C28_R(FMul(g.a, dt)), k))

C28_Moves ==
    rpc = "loop" /\ i <= num_steps /\ g.kind = "linear" =>
        xr'[0] = FMul(xr[0], C28_R(FMul(g.a, dt)))

\* C28: for the linear scalar field g(x) = a*x one rk4 step multiplies the state
\* by 1 + z + z^2/2 + z^3/6 + z^4/24 with z = a*dt, and the n-th state of the
\* sequence is x0 times the n-th power of this factor, in both implementations.
C28_LinearStability == []C28_State /\ [][C28_Moves]_vars

C28_Witness ==
    /\ rpc = "returned"
    /\ g.kind = "linear"
    /\ impl = "numpy"
    /\ num_steps >= 2
    /\ FMul(g.a, dt) = Z(-2)
    /\ solution[2][0] = FDiv(x0[0], Z(9))
====
